---- MODULE Spec2Model ----
\* Verification model of the vault indexing-and-retrieval engine:
\*   - the hybrid query orchestrator and the lexical search adapter
\*     (services/brain_runtime/api/vault.py),
\*   - the markdown chunker (services/indexing/semantic/chunker.py),
\*   - the vector index and the reindex job
\*     (services/indexing/semantic/searcher.py,
\*      services/processors/rag/processor.py),
\*   - the embedding gateway (services/indexing/semantic/embeddings.py),
\*   - the index status endpoint (services/brain_runtime/api/vault.py),
\*   - processor runs under the file lock
\*     (services/processors/lock.py, services/brain_runtime/api/processors.py).
EXTENDS Integers, Sequences, FiniteSets, Bags, TLC

VARIABLES
    \* ---- search (api/vault.py) ----
    sem,        \* what the semantic backend does for the query being served
    rg,         \* what the ripgrep subprocess does for the query being served
    req,        \* arguments of the search_vault call in progress / last served
    resp,       \* what search_vault returned or raised
    consulted,  \* backends touched while serving req
    log,        \* logging.error calls made while serving req
    spc,        \* "idle" | "done": position of the search handler
    \* ---- chunker (indexing/semantic/chunker.py) ----
    cfg,        \* MarkdownChunker(max_tokens, overlap_tokens, min_chunk_size)
    sections,   \* chunk_file: what _split_by_headings returned
    sidx,       \* chunk_file: index of the section the for loop is at
    chunks,     \* chunk_file: the list being built
    split_i,    \* _split_by_tokens: i, the token offset of the next window
    sub_chunks, \* _split_by_tokens: the list being built
    cut,        \* history: the windows cut from the current section
    cpc,        \* "off" | "section" | "split" | "done": position in chunk_file
    \* ---- a file chunked again after an edit (chunker.py) ----
    doc,        \* the file as it is on disk
    produced,   \* what chunk_file returned for doc, NotRun before the call
    before,     \* history: the version chunked last and its chunks
    \* ---- reindex job (processors/rag/processor.py, searcher.py) ----
    vault,      \* the markdown files of the vault, by path
    store,      \* the ChromaDB collection "vault_chunks"
    job,        \* RAGProcessor.run: its arguments, locals and position ("ended":
                \* it returned and the vault is as it was scanned)
    outcome,    \* the ProcessorResult of the run that ended last
    last,       \* history: the successful run before, if the vault is unchanged
    \* ---- the API process serving searches (api/vault.py, searcher.py) ----
    handlers,   \* per request: position of its search_vault coroutine, its
                \* search_type and the VaultSearcher it constructed
    proc,       \* the process: which coroutine the event loop is running,
                \* how many clients and models were constructed and loaded
    \* ---- a filtered semantic search (searcher.py) ----
    stored,     \* the entries of the collection, nearest to the query first
    fq,         \* the arguments of VaultSearcher.search
    fres,       \* what VaultSearcher.search returned, NotSearched before
    \* ---- the index status endpoint (api/vault.py, searcher.py) ----
    chroma,     \* data/chroma on disk: the directory, the collection and its
                \* entry count
    scall,       \* get_search_status: its position, its locals, what it returned
    \* ---- the embedding gateway (indexing/semantic/embeddings.py) ----
    gateway,    \* one EmbeddingModel: _model (the device it is loaded on) and device
    gcall,      \* the embed call in progress and how many calls were made
    loaded,      \* history: every SentenceTransformer(...) construction, in order
    \* ---- one index_chunks call (indexing/semantic/searcher.py) ----
    ix,         \* index_chunks: its arguments, its locals, its position, its result
    calls,       \* history: the calls made to the embedding model and the collection
    \* ---- the vault scan of a reindex (processors/rag/processor.py) ----
    tree,       \* the vault on disk: where its root is and the files under it
    scanned,     \* what _scan_vault returned, NotScanned before the call
    \* ---- processor runs under the lock (processors/lock.py, api/processors.py) ----
    lockfile,   \* rag.lock: the inode at its path (0: no file), the inodes made
                \* so far, the task holding the flock of each
    tasks       \* per run request: its process, its position, its descriptor, its job

searchVars == <<sem, rg, req, resp, consulted, log, spc>>

chunkVars == <<cfg, sections, sidx, chunks, split_i, sub_chunks, cut, cpc>>

rechunkVars == <<doc, produced, before>>

reindexVars == <<vault, store, job, outcome, last>>

serveVars == <<handlers, proc>>

filterVars == <<stored, fq, fres>>

statusVars == <<chroma, scall>>

gatewayVars == <<gateway, gcall, loaded>>

indexerVars == <<ix, calls>>

scanVars == <<tree, scanned>>

lockVars == <<lockfile, tasks>>

vars == <<sem, rg, req, resp, consulted, log, spc,
          cfg, sections, sidx, chunks, split_i, sub_chunks, cut, cpc,
          doc, produced, before,
          vault, store, job, outcome, last,
          handlers, proc,
          stored, fq, fres,
          chroma, scall,
          gateway, gcall, loaded,
          ix, calls,
          tree, scanned,
          lockfile, tasks>>

\* What an action of one component leaves alone.
notSearchVars == <<chunkVars, rechunkVars, reindexVars, serveVars, filterVars, statusVars, gatewayVars, indexerVars, scanVars, lockVars>>
notChunkVars == <<searchVars, rechunkVars, reindexVars, serveVars, filterVars, statusVars, gatewayVars, indexerVars, scanVars, lockVars>>
notRechunkVars == <<searchVars, chunkVars, reindexVars, serveVars, filterVars, statusVars, gatewayVars, indexerVars, scanVars, lockVars>>
notReindexVars == <<searchVars, chunkVars, rechunkVars, serveVars, filterVars, statusVars, gatewayVars, indexerVars, scanVars, lockVars>>
notServeVars == <<searchVars, chunkVars, rechunkVars, reindexVars, filterVars, statusVars, gatewayVars, indexerVars, scanVars, lockVars>>
notFilterVars == <<searchVars, chunkVars, rechunkVars, reindexVars, serveVars, statusVars, gatewayVars, indexerVars, scanVars, lockVars>>
notStatusVars == <<searchVars, chunkVars, rechunkVars, reindexVars, serveVars, filterVars, gatewayVars, indexerVars, scanVars, lockVars>>
notGatewayVars == <<searchVars, chunkVars, rechunkVars, reindexVars, serveVars, filterVars, statusVars, indexerVars, scanVars, lockVars>>
notIndexerVars == <<searchVars, chunkVars, rechunkVars, reindexVars, serveVars, filterVars, statusVars, gatewayVars, scanVars, lockVars>>
notScanVars == <<searchVars, chunkVars, rechunkVars, reindexVars, serveVars, filterVars, statusVars, gatewayVars, indexerVars, lockVars>>
notLockVars == <<searchVars, chunkVars, rechunkVars, reindexVars, serveVars, filterVars, statusVars, gatewayVars, indexerVars, scanVars>>

None == "None"

\* The elements of a list.
Elems(q) == { q[j] : j \in 1..Len(q) }

\* ------------------------------------------------------------------ bounds
MaxLines == 3      \* lines of subprocess output
MaxTopK == 2       \* largest top_k requested
MaxHits == 2       \* nearest neighbours the vector index can return

\* ------------------------------------------------------- strings and paths
\* A string is a sequence of one-character strings, so that lower() and the
\* substring test `a in b` are computed, not assumed.
Lower(s) ==
    [i \in 1..Len(s) |->
        CASE s[i] = "A" -> "a"
          [] s[i] = "B" -> "b"
          [] s[i] = "V" -> "v"
          [] OTHER -> s[i]]

\* Python `sub in s` for strings.
Contains(sub, s) ==
    \E k \in 0..(Len(s) - Len(sub)) :
        \A j \in 1..Len(sub) : s[k + j] = sub[j]

\* str(vault_path): the directory handed to rg; every path rg prints starts
\* with it.
VaultPath == <<"V">>

IsUnder(p, root) ==
    /\ Len(p) > Len(root) + 1
    /\ SubSeq(p, 1, Len(root)) = root
    /\ p[Len(root) + 1] = "/"

\* str(Path(file_path).relative_to(vault_path)), ValueError -> file_path
RelativeTo(p, root) ==
    IF IsUnder(p, root) THEN SubSeq(p, Len(root) + 2, Len(p)) ELSE p

RECURSIVE LastSlash(_, _)
LastSlash(p, i) ==
    IF i = 0 THEN 0 ELSE IF p[i] = "/" THEN i ELSE LastSlash(p, i - 1)

\* Path(file_path).stem (the files are *.md; the suffix is left implicit)
Stem(p) == SubSeq(p, LastSlash(p, Len(p)) + 1, Len(p))

VaultFiles == { VaultPath \o <<"/">> \o n : n \in { <<"a">>, <<"B">> } }

\* path_contains values a caller passes; <<>> stands for None / "".
PathFilters == { <<>>, <<"a">>, <<"b">>, <<"v">> }

\* ------------------------------------------------- lexical search adapter
\* One line of the subprocess's stdout, by what json.loads and the parsing
\* code make of it:
\*   blank    ""                        -> `if not line: continue`
\*   garbage  not JSON                  -> json.JSONDecodeError, continue
\*   scalar   JSON, but not an object   -> data.get raises AttributeError
\*   begin    an object, type != match  -> continue
\*   match    a match record of a file
LineShapes ==
    { [kind |-> "blank"], [kind |-> "garbage"], [kind |-> "scalar"],
      [kind |-> "begin"] }
    \cup { [kind |-> "match", path |-> f] : f \in VaultFiles }

\* The tool reports the line number of each match; here the n-th output line
\* reports line n, so that two matches of one file are told apart.
StdoutOf(shapes) ==
    [i \in 1..Len(shapes) |->
        IF shapes[i].kind = "match"
        THEN [kind |-> "match", path |-> shapes[i].path, line_number |-> i,
              text |-> "hit"]
        ELSE shapes[i]]

Stdouts(n) == UNION { { StdoutOf(sh) : sh \in [1..k -> LineShapes] } : k \in 0..n }

HasMatch(out) == \E i \in 1..Len(out) : out[i].kind = "match"

\* Outcomes of subprocess.run(cmd, capture_output=True, text=True, timeout=30)
\* and of the vault_path.exists() test before it.
RgOutcomes ==
    { [kind |-> k, returncode |-> 0, stdout |-> <<>>] :
        k \in {"novault", "timeout", "oserror"} }
    \cup { [kind |-> "exit", returncode |-> IF HasMatch(o) THEN 0 ELSE 1,
            stdout |-> o] : o \in Stdouts(MaxLines) }
    \cup { [kind |-> "exit", returncode |-> 2, stdout |-> o] : o \in Stdouts(1) }

TextResult(line) ==
    [ chunk_id |-> None,
      score |-> None,
      text |-> line.text,
      title |-> Stem(line.path),
      file_path |-> RelativeTo(line.path, VaultPath),
      obsidian_uri |-> <<"obsidian://open?vault=Obsidian-Private&file=">>
                        \o RelativeTo(line.path, VaultPath),
      start_line |-> line.line_number,
      search_type |-> "text" ]

\* Mutant of ParseLines: the seen_files test is missing.
RECURSIVE ParseLines_nodedup(_, _, _, _, _)
ParseLines_nodedup(lines, results, seen_files, top_k, path_contains) ==
    IF lines = <<>> THEN [raised |-> FALSE, results |-> results]
    ELSE
      LET line == Head(lines)
          continue == ParseLines_nodedup(Tail(lines), results, seen_files, top_k,
                                         path_contains)
      IN  IF line.kind \in {"blank", "garbage", "begin"} THEN continue
          ELSE IF line.kind = "scalar" THEN [raised |-> TRUE, results |-> <<>>]
          ELSE IF /\ path_contains # <<>>
                  /\ ~Contains(Lower(path_contains), Lower(line.path))
               THEN continue
          ELSE
            LET appended == Append(results, TextResult(line))
            IN  IF Len(appended) >= top_k
                THEN [raised |-> FALSE, results |-> appended]
                ELSE ParseLines_nodedup(Tail(lines), appended, seen_files, top_k,
                                        path_contains)

\* The `for line in result.stdout.strip().split("\n")` loop, from `lines` on,
\* with the loop's locals `results` and `seen_files`.  raised = an exception
\* other than json.JSONDecodeError left the loop.
RECURSIVE ParseLines(_, _, _, _, _)
ParseLines(lines, results, seen_files, top_k, path_contains) ==
    IF lines = <<>> THEN [raised |-> FALSE, results |-> results]
    ELSE
      LET line == Head(lines)
          continue == ParseLines(Tail(lines), results, seen_files, top_k, path_contains)
      IN  IF line.kind = "blank" THEN continue
          ELSE IF line.kind = "garbage" THEN continue
          ELSE IF line.kind = "scalar" THEN [raised |-> TRUE, results |-> <<>>]
          ELSE IF line.kind # "match" THEN continue
          ELSE IF /\ path_contains # <<>>
                  /\ ~Contains(Lower(path_contains), Lower(line.path))
               THEN continue
          ELSE IF line.path \in seen_files THEN continue
          ELSE
            LET appended == Append(results, TextResult(line))
            IN  IF Len(appended) >= top_k
                THEN [raised |-> FALSE, results |-> appended]
                ELSE ParseLines(Tail(lines), appended,
                                seen_files \cup {line.path}, top_k, path_contains)

\* Mutant of text_search: the return code is not looked at.
text_search_any_exit(g, top_k, path_contains) ==
    IF g.kind = "novault"
    THEN [results |-> <<>>, consulted |-> {}, log |-> <<>>]
    ELSE IF g.kind = "timeout"
    THEN [results |-> <<>>, consulted |-> {"subprocess"}, log |-> <<>>]
    ELSE IF g.kind = "oserror"
    THEN [results |-> <<>>, consulted |-> {"subprocess"},
          log |-> <<"Text search failed">>]
    ELSE
      LET parsed == ParseLines(g.stdout, <<>>, {}, top_k, path_contains)
      IN  IF parsed.raised
          THEN [results |-> <<>>, consulted |-> {"subprocess"},
                log |-> <<"Text search failed">>]
          ELSE [results |-> parsed.results, consulted |-> {"subprocess"},
                log |-> <<>>]

\* _text_search(query, top_k, path_contains) against outcome g of the tool.
\* It never raises: every path returns a list.
text_search(g, top_k, path_contains) ==
    IF g.kind = "novault"
    THEN [results |-> <<>>, consulted |-> {}, log |-> <<>>]
    ELSE IF g.kind = "timeout"
    THEN [results |-> <<>>, consulted |-> {"subprocess"}, log |-> <<>>]
    ELSE IF g.kind = "oserror"
    THEN [results |-> <<>>, consulted |-> {"subprocess"},
          log |-> <<"Text search failed">>]
    ELSE IF g.returncode \notin {0, 1}
    THEN [results |-> <<>>, consulted |-> {"subprocess"}, log |-> <<>>]
    ELSE
      LET parsed == ParseLines(g.stdout, <<>>, {}, top_k, path_contains)
      IN  IF parsed.raised
          THEN [results |-> <<>>, consulted |-> {"subprocess"},
                log |-> <<"Text search failed">>]
          ELSE [results |-> parsed.results, consulted |-> {"subprocess"},
                log |-> <<>>]

\* ------------------------------------------------------- semantic backend
\* Outcomes of the semantic backend for the query:
\*   nodir        persist_dir does not exist
\*   index_error  the client / collection / count() raises
\*   empty        collection.count() == 0
\*   embed_error  embed_query raises
\*   ok           the index answers; n results survive min_score and filters
SemOutcomes ==
    { [kind |-> k, n |-> 0] : k \in {"nodir", "index_error", "empty", "embed_error"} }
    \cup { [kind |-> "ok", n |-> n] : n \in 0..MaxHits }

\* The i-th best chunk as VaultSearcher.search formats it.
ChunkIds == <<"c1", "c2", "c3", "c4">>
Hit(i) ==
    [chunk_id |-> ChunkIds[i], score |-> "cosine", file_path |-> <<"a">>,
     text |-> "chunk", start_line |-> 10 * i]

\* VaultSearcher.search: at most top_k formatted results, best first.
searcher_search(s, top_k) ==
    LET k == IF s.n < top_k THEN s.n ELSE top_k
    IN  [i \in 1..k |-> Hit(i)]

SemanticResult(r) ==
    [ chunk_id |-> r.chunk_id,
      score |-> r.score,
      text |-> r.text,
      title |-> Stem(r.file_path),
      file_path |-> r.file_path,
      obsidian_uri |-> <<"obsidian://open?vault=Obsidian-Private&file=">>
                        \o r.file_path,
      start_line |-> r.start_line,
      search_type |-> "semantic" ]

\* Mutant of semantic_search: no try/except around the searcher.
semantic_search_propagate(s, top_k) ==
    IF s.kind = "nodir"
    THEN [raised |-> FALSE, results |-> <<>>, consulted |-> {}, log |-> <<>>]
    ELSE IF s.kind \in {"index_error", "embed_error"}
    THEN [raised |-> TRUE, results |-> <<>>,
          consulted |-> IF s.kind = "index_error" THEN {"vector_index"}
                        ELSE {"vector_index", "embedding"},
          log |-> <<>>]
    ELSE
      LET found == searcher_search(s, top_k)
      IN  [raised |-> FALSE,
           results |-> [i \in 1..Len(found) |-> SemanticResult(found[i])],
           consulted |-> IF s.kind = "empty" THEN {"vector_index"}
                         ELSE {"vector_index", "embedding"},
           log |-> <<>>]

\* _semantic_search(...) against outcome s of the backend.
semantic_search(s, top_k) ==
    IF s.kind = "nodir"
    THEN [raised |-> FALSE, results |-> <<>>, consulted |-> {}, log |-> <<>>]
    ELSE IF s.kind = "index_error"
    THEN [raised |-> FALSE, results |-> <<>>, consulted |-> {"vector_index"},
          log |-> <<"Semantic search failed">>]
    ELSE IF s.kind = "empty"
    THEN [raised |-> FALSE, results |-> <<>>, consulted |-> {"vector_index"},
          log |-> <<>>]
    ELSE IF s.kind = "embed_error"
    THEN [raised |-> FALSE, results |-> <<>>,
          consulted |-> {"vector_index", "embedding"},
          log |-> <<"Semantic search failed">>]
    ELSE
      LET found == searcher_search(s, top_k)
      IN  [raised |-> FALSE,
           results |-> [i \in 1..Len(found) |-> SemanticResult(found[i])],
           consulted |-> {"vector_index", "embedding"},
           log |-> <<>>]

\* ------------------------------------------------ hybrid query orchestrator
SearchTypes == {"semantic", "text", "hybrid", "fuzzy"}

SearchResponse(results, search_type) ==
    [kind |-> "response", results |-> results, count |-> Len(results),
     search_type |-> search_type]

\* An exception leaving search_vault.
Raised(what) ==
    [kind |-> what, results |-> <<>>, count |-> 0, search_type |-> None]

\* The body of search_vault after `tag_list = ...`, given what the two
\* backend calls return: `semantic` is awaited only for semantic and hybrid,
\* `text` only for text and for hybrid with an empty semantic result.
route(r, semantic, text) ==
    IF r.search_type \in {"semantic", "hybrid"} /\ semantic.raised
    THEN [resp |-> Raised("exception"), consulted |-> semantic.consulted,
          log |-> semantic.log]
    ELSE IF /\ r.search_type \in {"semantic", "hybrid"}
            /\ (semantic.results # <<>> \/ r.search_type = "semantic")
    THEN [resp |-> SearchResponse(semantic.results, "semantic"),
          consulted |-> semantic.consulted, log |-> semantic.log]
    ELSE IF r.search_type \in {"text", "hybrid"}
    THEN [resp |-> SearchResponse(text.results, "text"),
          consulted |-> (IF r.search_type = "hybrid"
                         THEN semantic.consulted ELSE {}) \cup text.consulted,
          log |-> (IF r.search_type = "hybrid" THEN semantic.log ELSE <<>>)
                  \o text.log]
    ELSE [resp |-> Raised("HTTPException 400"), consulted |-> {}, log |-> <<>>]

\* Mutants of search_vault.
\* hybrid falls back whenever semantic returns fewer than top_k results
search_vault_short(r, s, g) ==
    LET semantic == semantic_search(s, r.top_k)
        text == text_search(g, r.top_k, r.path_contains)
    IN  IF r.search_type = "hybrid" /\ Len(semantic.results) < r.top_k
        THEN route(r, [semantic EXCEPT !.results = <<>>], text)
        ELSE route(r, semantic, text)

\* hybrid appends the lexical results to the semantic ones
search_vault_blend(r, s, g) ==
    LET semantic == semantic_search(s, r.top_k)
        text == text_search(g, r.top_k, r.path_contains)
    IN  IF r.search_type = "hybrid"
        THEN [resp |-> SearchResponse(semantic.results \o text.results, "semantic"),
              consulted |-> semantic.consulted \cup text.consulted,
              log |-> semantic.log \o text.log]
        ELSE route(r, semantic, text)

\* an unknown search_type is served as text
search_vault_default_text(r, s, g) ==
    LET semantic == semantic_search(s, r.top_k)
        text == text_search(g, r.top_k, r.path_contains)
    IN  IF r.search_type \notin {"semantic", "text", "hybrid"}
        THEN route([r EXCEPT !.search_type = "text"], semantic, text)
        ELSE route(r, semantic, text)

\* search_vault(query, search_type, top_k, ..., path_contains) in world (s, g).
search_vault(r, s, g) ==
    route(r, semantic_search(s, r.top_k), text_search(g, r.top_k, r.path_contains))

Requests ==
    [search_type : SearchTypes, top_k : 1..MaxTopK, path_contains : PathFilters]

NoRequest == [search_type |-> None, top_k |-> 0, path_contains |-> <<>>]
NoResponse == [kind |-> None, results |-> <<>>, count |-> 0, search_type |-> None]

\* The default configuration of the chunker.
DefaultMaxTokens == 800
DefaultOverlapTokens == 120
DefaultMinChunkSize == 50

DefaultConfig ==
    [max_tokens |-> DefaultMaxTokens, overlap_tokens |-> DefaultOverlapTokens,
     min_chunk_size |-> DefaultMinChunkSize]

\* No chunker is running.
ChunkerOff ==
    /\ cfg = DefaultConfig
    /\ sections = <<>>
    /\ sidx = 0
    /\ chunks = <<>>
    /\ split_i = 0
    /\ sub_chunks = <<>>
    /\ cut = <<>>
    /\ cpc = "off"

\* No search is being served.
SearchOff ==
    /\ sem = [kind |-> "nodir", n |-> 0]
    /\ rg = [kind |-> "novault", returncode |-> 0, stdout |-> <<>>]
    /\ req = NoRequest
    /\ resp = NoResponse
    /\ consulted = {}
    /\ log = <<>>
    /\ spc = "idle"

\* A file: fm is the number of lines of its frontmatter block, both "---"
\* lines included, 0 without frontmatter; lines are the lines after it.
NoDoc == [fm |-> 0, lines |-> <<>>]
NotRun == [ran |-> FALSE, chunks |-> <<>>]
NoVersion == [ran |-> FALSE, doc |-> NoDoc, chunks |-> <<>>]

\* No file is being chunked again.
RechunkOff ==
    /\ doc = NoDoc
    /\ produced = NotRun
    /\ before = NoVersion

\* The files of the vault in the order _scan_vault lists them.
ReindexFiles == << "01-PROJECTS/a.md", "02-AREAS/b.md" >>

NoJob ==
    [pc |-> "idle", recreate |-> FALSE, chunk_raises |-> {}, embed_raises |-> {},
     delete_fails |-> FALSE, md_files |-> <<>>, all_chunks |-> <<>>,
     files_chunked |-> 0, chunk_errors |-> 0, indexed_count |-> 0, run_no |-> 0]
NoOutcome ==
    [done |-> FALSE, success |-> FALSE, files_scanned |-> 0, files_chunked |-> 0,
     total_chunks |-> 0, chunks_indexed |-> 0, chunk_errors |-> 0]
NoLast == [valid |-> FALSE, entries |-> EmptyBag, chunks |-> <<>>, chunk_raises |-> {}]

\* No reindex job and no index.
ReindexOff ==
    /\ vault = [f \in Elems(ReindexFiles) |-> 0]
    /\ store = [exists |-> FALSE, entries |-> EmptyBag]
    /\ job = NoJob
    /\ outcome = NoOutcome
    /\ last = NoLast

\* Requests served by one process.
MaxRequests == 2

\* A VaultSearcher as __init__ leaves it: nothing loaded yet.
NewSearcher == [client |-> FALSE, collection |-> FALSE, embedding_model |-> FALSE]
NoHandler == [pc |-> "new", search_type |-> None, searcher |-> NewSearcher]
NoProc == [loop |-> 0, nonempty |-> FALSE, clients |-> 0, models |-> 0, loads |-> 0]

\* No request has reached the process.
ServeOff ==
    /\ handlers = [r \in 1..MaxRequests |-> NoHandler]
    /\ proc = NoProc

NoQuery ==
    [top_k |-> 0, min_score |-> 0, para_category |-> "", tags |-> <<>>,
     path_contains |-> <<>>]
NotSearched == [returned |-> FALSE, results |-> <<>>]

\* No filtered search is made.
FilterOff ==
    /\ stored = <<>>
    /\ fq = NoQuery
    /\ fres = NotSearched

\* Largest entry count of the collection the status endpoint is shown.
MaxCount == 3

NoChroma == [dir |-> FALSE, collection |-> FALSE, count |-> 0]

\* semantic_stats = {"status": "not_indexed", "chunk_count": 0}
NotIndexed ==
    [keys |-> {"status", "chunk_count"}, status |-> "not_indexed", chunk_count |-> 0]
NoCall ==
    [pc |-> "idle", semantic_stats |-> NotIndexed, failed |-> FALSE,
     text_search |-> FALSE]

\* No status request is made.
StatusOff ==
    /\ chroma = NoChroma
    /\ scall = NoCall

\* Embed calls made on one gateway.
MaxCalls == 3

\* EmbeddingModel.__init__(device): nothing loaded.
NewGateway(device) == [model |-> None, device |-> device]
NoCalls == [pc |-> "idle", n |-> 0, raised |-> FALSE]

\* No embedding gateway is used.
GatewayOff ==
    /\ gateway = NewGateway("mps")
    /\ gcall = NoCalls
    /\ loaded = <<>>

\* Chunks given to one index_chunks call, and the largest batch_size.
MaxChunks == 3
MaxBatch == 2

NoIndexing ==
    [pc |-> "idle", chunks |-> <<>>, batch_size |-> 0, entries |-> <<>>,
     i |-> 0, total_indexed |-> 0, result |-> 0]

\* No index_chunks call is made.
IndexerOff ==
    /\ ix = NoIndexing
    /\ calls = <<>>

NotScanned == [ran |-> FALSE, md_files |-> {}]

\* No vault is scanned.
ScanOff ==
    /\ tree = [location |-> <<>>, files |-> {}]
    /\ scanned = NotScanned

\* Run requests for one processor name.
MaxTasks == 3

\* The processes the requests arrive in: the API server and a second one
\* started over the same data directory.
Processes == {"server", "other"}

NoLockFile == [path |-> 0, inodes |-> 0, held |-> [n \in 1..MaxTasks |-> 0]]
NewTask(process) ==
    [process |-> process, pc |-> "new", fd |-> 0, job |-> None, ran |-> FALSE]

\* No processor run is requested.
LockOff ==
    /\ lockfile = NoLockFile
    /\ tasks = [t \in 1..MaxTasks |-> NewTask("server")]

SearchInit ==
    /\ sem \in SemOutcomes
    /\ rg \in RgOutcomes
    /\ req = NoRequest
    /\ resp = NoResponse
    /\ consulted = {}
    /\ log = <<>>
    /\ spc = "idle"
    /\ ChunkerOff
    /\ RechunkOff
    /\ ReindexOff
    /\ ServeOff
    /\ FilterOff
    /\ StatusOff
    /\ GatewayOff
    /\ IndexerOff
    /\ ScanOff
    /\ LockOff

\* One call of search_vault, start to return.
SearchVault ==
    /\ spc = "idle"
    /\ \E r \in Requests :
         LET out == search_vault(r, sem, rg)
         IN  /\ req' = r
             /\ resp' = out.resp
             /\ consulted' = out.consulted
             /\ log' = out.log
    /\ spc' = "done"
    /\ UNCHANGED <<sem, rg>>
    /\ UNCHANGED notSearchVars

\* The caller has taken the response; the handler serves the next call.
SearchReturn ==
    /\ spc = "done"
    /\ spc' = "idle"
    /\ req' = NoRequest
    /\ resp' = NoResponse
    /\ consulted' = {}
    /\ log' = <<>>
    /\ UNCHANGED <<sem, rg>>
    /\ UNCHANGED notSearchVars

Next ==
    \/ SearchVault
    \/ SearchReturn

Spec == SearchInit /\ [][Next]_vars

\* ================================================================ chunker
\* The tokenizer is tiktoken's cl100k_base, a library outside the repository.
\* A text is held as the sequence of tokens encode() gives for it, so that
\* decode(tokens[a:b]) is the sub-sequence; what the code computes on the
\* characters of a text (strip, len, count of newlines) is computed from the
\* characters each token stands for:
\*   "W"  a word token of three characters, none of them whitespace
\*   "s"  a newline, one whitespace character
Tokens == {"W", "s"}

TokenChars(t) == IF t = "W" THEN 3 ELSE 1

\* Bounds of the files explored exhaustively.
MaxSections == 2
MaxSectionTokens == 4
\* The section of the 2000-token scenario.
ScenarioTokens == 2000

SetMin(S) == CHOOSE x \in S : \A y \in S : x <= y
SetMax(S) == CHOOSE x \in S : \A y \in S : x >= y

NonBlank(text) == { j \in 1..Len(text) : text[j] # "s" }

\* str.strip()
strip(text) ==
    IF NonBlank(text) = {} THEN <<>>
    ELSE SubSeq(text, SetMin(NonBlank(text)), SetMax(NonBlank(text)))

\* len(text), in characters
CharLen(text) ==
    TokenChars("W") * Cardinality({ j \in 1..Len(text) : text[j] = "W" })
    + TokenChars("s") * Cardinality({ j \in 1..Len(text) : text[j] = "s" })

\* text.count('\n')
Newlines(text) == Cardinality({ j \in 1..Len(text) : text[j] = "s" })

\* _count_tokens(text) = len(self.tokenizer.encode(text))
count_tokens(text) == Len(text)

\* _generate_chunk_id: sha256 of "path|heading|start_line", kept as the key
\* that is hashed.
generate_chunk_id(path, heading, start_line) == <<path, heading, start_line>>

\* relative_path of the file being chunked
RelativePath == "notes/a.md"

\* Mutant of Chunk: the id is the hash of the chunk's content.
Chunk_content_id(path, heading_path, text, start_line) ==
    [ chunk_id |-> <<path, heading_path, strip(text)>>,
      text |-> strip(text),
      file_path |-> path,
      heading_path |-> heading_path,
      start_line |-> start_line,
      end_line |-> start_line + Newlines(text),
      token_count |-> count_tokens(text) ]

\* The Chunk(...) chunk_file appends, for a whole section and for a window
\* of an oversized one alike (title, para_category, tags and links are
\* per-file metadata and are left out).
Chunk(path, heading_path, text, start_line) ==
    [ chunk_id |-> generate_chunk_id(path, heading_path, start_line),
      text |-> strip(text),
      file_path |-> path,
      heading_path |-> heading_path,
      start_line |-> start_line,
      end_line |-> start_line + Newlines(text),
      token_count |-> count_tokens(text) ]

\* Chunk(...) for a section that fits in one chunk.
WholeChunk(sec) == Chunk(RelativePath, sec.heading_path, sec.text, sec.start_line)

\* Chunk(...) for one (sub_chunk_text, sub_start_line) of an oversized section.
SubChunk(sec, sc) == Chunk(RelativePath, sec.heading_path, sc.text, sc.start_line)

\* tokens[i:i + self.max_tokens]
Window(tokens, k, c) ==
    SubSeq(tokens, k + 1,
           IF k + c.max_tokens < Len(tokens) THEN k + c.max_tokens ELSE Len(tokens))

\* Mutant of NextOffset: the windows do not overlap.
NextOffset_nooverlap(k, c) == k + c.max_tokens

\* i += self.max_tokens - self.overlap_tokens
NextOffset(k, c) == k + c.max_tokens - c.overlap_tokens

\* if len(chunk_text.strip()) >= self.min_chunk_size
Keeps(chunk_text, c) == CharLen(strip(chunk_text)) >= c.min_chunk_size

\* ---- the files chunked
SmallConfigs ==
    { [max_tokens |-> 3, overlap_tokens |-> 2, min_chunk_size |-> 2],
      [max_tokens |-> 3, overlap_tokens |-> 1, min_chunk_size |-> 2] }

\* Section texts: _split_by_headings keeps a section only if
\* section_text.strip() is not empty.
Texts(n) ==
    UNION { { t \in [1..k -> Tokens] : NonBlank(t) # {} } : k \in 1..n }

HeadingPaths == <<"ROOT", "A", "A > B", "A > C", "D">>

\* section_start_line of the k-th section: the line after its heading, the
\* first section being the text before any heading.
RECURSIVE StartLine(_, _)
StartLine(texts, k) ==
    IF k = 1 THEN 0
    ELSE StartLine(texts, k - 1) + Newlines(texts[k - 1]) + 2

\* The (heading_path, section_text, start_line) tuples of a file.
SectionsOf(texts) ==
    [k \in 1..Len(texts) |->
        [heading_path |-> HeadingPaths[k], text |-> texts[k],
         start_line |-> StartLine(texts, k)]]

\* Sections that chunk_file handles without splitting: one below the floor
\* of SmallConfigs, one within the bounds.
PlainTexts == { <<"W">>, <<"W", "s", "W">> }

\* The files explored: up to MaxSections sections, one of them any text of up
\* to MaxSectionTokens tokens, at any position, the others plain.
SmallFiles ==
    UNION { UNION { { SectionsOf([j \in 1..k |-> IF j = p THEN t ELSE plain[j]]) :
                        t \in Texts(MaxSectionTokens), plain \in [1..k -> PlainTexts] } :
                    p \in 1..k } :
            k \in 1..MaxSections }

\* One section of ScenarioTokens tokens of running text, ten tokens a line.
ScenarioText ==
    [j \in 1..ScenarioTokens |-> IF j % 10 = 0 THEN "s" ELSE "W"]

ScenarioFiles == { SectionsOf(<<ScenarioText>>) }

\* The sections of a file with two sections under the same heading: "# A",
\* a line of 801 tokens, 66 empty lines, "# A" again, a line of 60 tokens.
RepeatedHeadingFiles ==
    { << [heading_path |-> "A",
          text |-> [j \in 1..867 |-> IF j <= 801 THEN "W" ELSE "s"],
          start_line |-> 1],
         [heading_path |-> "A", text |-> [j \in 1..60 |-> "W"], start_line |-> 69] >> }

ChunkInputs ==
    { [cfg |-> c, sections |-> f] : c \in SmallConfigs, f \in SmallFiles }
    \cup { [cfg |-> DefaultConfig, sections |-> f] :
              f \in ScenarioFiles \cup RepeatedHeadingFiles }

\* chunk_file has split the file by headings and starts its loop.
ChunkInit ==
    /\ \E inp \in ChunkInputs :
         /\ cfg = inp.cfg
         /\ sections = inp.sections
    /\ sidx = 1
    /\ chunks = <<>>
    /\ split_i = 0
    /\ sub_chunks = <<>>
    /\ cut = <<>>
    /\ cpc = "section"
    /\ sem = [kind |-> "nodir", n |-> 0]
    /\ rg = [kind |-> "novault", returncode |-> 0, stdout |-> <<>>]
    /\ req = NoRequest
    /\ resp = NoResponse
    /\ consulted = {}
    /\ log = <<>>
    /\ spc = "idle"
    /\ RechunkOff
    /\ ReindexOff
    /\ ServeOff
    /\ FilterOff
    /\ StatusOff
    /\ GatewayOff
    /\ IndexerOff
    /\ ScanOff
    /\ LockOff

\* chunk_file, loop body: a section of at most max_tokens tokens.
WholeSection ==
    /\ cpc = "section"
    /\ sidx <= Len(sections)
    /\ LET sec == sections[sidx]
           token_count == count_tokens(sec.text)
       IN  /\ token_count <= cfg.max_tokens
           /\ chunks' = IF token_count >= cfg.min_chunk_size
                        THEN Append(chunks, WholeChunk(sec))
                        ELSE chunks
    /\ sidx' = sidx + 1
    /\ UNCHANGED <<cfg, sections, split_i, sub_chunks, cut, cpc>>
    /\ UNCHANGED notChunkVars

\* chunk_file, loop body: an oversized section enters _split_by_tokens.
SplitBegin ==
    /\ cpc = "section"
    /\ sidx <= Len(sections)
    /\ count_tokens(sections[sidx].text) > cfg.max_tokens
    /\ split_i' = 0
    /\ sub_chunks' = <<>>
    /\ cut' = <<>>
    /\ cpc' = "split"
    /\ UNCHANGED <<cfg, sections, sidx, chunks>>
    /\ UNCHANGED notChunkVars

\* _split_by_tokens: one iteration of `while i < len(tokens)`.
SplitStep ==
    /\ cpc = "split"
    /\ split_i < Len(sections[sidx].text)
    /\ LET sec == sections[sidx]
           chunk_text == Window(sec.text, split_i, cfg)
           keep == Keeps(chunk_text, cfg)
       IN  /\ sub_chunks' =
                IF keep
                THEN Append(sub_chunks,
                            [text |-> chunk_text,
                             start_line |-> sec.start_line + (split_i \div 10)])
                ELSE sub_chunks
           /\ cut' = Append(cut, [lo |-> split_i,
                                  hi |-> split_i + Len(chunk_text),
                                  kept |-> keep])
    /\ split_i' = NextOffset(split_i, cfg)
    /\ UNCHANGED <<cfg, sections, sidx, chunks, cpc>>
    /\ UNCHANGED notChunkVars

\* _split_by_tokens returns; chunk_file appends a Chunk per sub-chunk.
SplitEnd ==
    /\ cpc = "split"
    /\ split_i >= Len(sections[sidx].text)
    /\ chunks' = chunks \o
                 [k \in 1..Len(sub_chunks) |-> SubChunk(sections[sidx], sub_chunks[k])]
    /\ sidx' = sidx + 1
    /\ cpc' = "section"
    /\ UNCHANGED <<cfg, sections, split_i, sub_chunks, cut>>
    /\ UNCHANGED notChunkVars

\* chunk_file returns chunks.
ChunkReturn ==
    /\ cpc = "section"
    /\ sidx > Len(sections)
    /\ cpc' = "done"
    /\ UNCHANGED <<cfg, sections, sidx, chunks, split_i, sub_chunks, cut>>
    /\ UNCHANGED notChunkVars

ChunkNext ==
    \/ WholeSection
    \/ SplitBegin
    \/ SplitStep
    \/ SplitEnd
    \/ ChunkReturn

SpecChunk == ChunkInit /\ [][ChunkNext]_vars

\* ================================================== a file chunked again
\* chunk_file as a function of the file, and a file that is edited between
\* two calls of it.

\* A line of a file. level 0: a line that is not a heading, tokens being its
\* text; level 1..6: a heading line, "#" * level followed by the heading.
BodyLine(tokens) == [level |-> 0, heading |-> "", tokens |-> tokens]
HeadingLine(level, heading) == [level |-> level, heading |-> heading, tokens |-> <<>>]

\* _parse_frontmatter: the content is content.split('---', 2)[2], what follows
\* the closing "---"; its first line is what is left of the closing line, an
\* empty line. (The YAML of the block is taken to load.)
parse_frontmatter(d) ==
    IF d.fm > 0 THEN <<BodyLine(<<>>)>> \o d.lines ELSE d.lines

\* The line of the file that line j of the parsed content is (both from 0).
FileLine(d, j) == IF d.fm > 0 THEN d.fm - 1 + j ELSE j

\* " > ".join(heading_stack) if heading_stack else "ROOT"
RECURSIVE JoinStack(_)
JoinStack(stack) ==
    IF Len(stack) = 1 THEN stack[1]
    ELSE stack[1] \o " > " \o JoinStack(Tail(stack))

HeadingPath(stack) == IF stack = <<>> THEN "ROOT" ELSE JoinStack(stack)

\* "\n".join(current_section)
RECURSIVE JoinLines(_)
JoinLines(ls) ==
    IF ls = <<>> THEN <<>>
    ELSE IF Len(ls) = 1 THEN ls[1]
    ELSE ls[1] \o <<"s">> \o JoinLines(Tail(ls))

\* heading_stack = heading_stack[:level-1]; heading_stack.append(heading_text)
PushHeading(stack, level, heading) ==
    SubSeq(stack, 1, IF level - 1 < Len(stack) THEN level - 1 ELSE Len(stack))
    \o <<heading>>

\* if current_section: ... if section_text.strip(): sections.append(...)
\* heading_stack is kept next to the path joined from it (history).
CloseSection(secs, current_section, heading_stack, section_start_line) ==
    IF current_section # <<>> /\ NonBlank(JoinLines(current_section)) # {}
    THEN Append(secs, [heading_path |-> HeadingPath(heading_stack),
                       text |-> JoinLines(current_section),
                       start_line |-> section_start_line,
                       heading_stack |-> heading_stack])
    ELSE secs

\* The loop of _split_by_headings, at line n - 1 (enumerate counts from 0).
RECURSIVE SplitLoop(_, _, _, _, _, _)
SplitLoop(lines, n, secs, current_section, heading_stack, section_start_line) ==
    IF n > Len(lines)
    THEN CloseSection(secs, current_section, heading_stack, section_start_line)
    ELSE IF lines[n].level > 0
    THEN SplitLoop(lines, n + 1,
                   CloseSection(secs, current_section, heading_stack,
                                section_start_line),
                   <<>>,
                   PushHeading(heading_stack, lines[n].level, lines[n].heading),
                   n)
    ELSE SplitLoop(lines, n + 1, secs, Append(current_section, lines[n].tokens),
                   heading_stack, section_start_line)

split_by_headings(lines) == SplitLoop(lines, 1, <<>>, <<>>, <<>>, 0)

\* _split_by_tokens from token offset k on.
RECURSIVE split_by_tokens(_, _, _, _)
split_by_tokens(tokens, start_line, k, c) ==
    IF k >= Len(tokens) THEN <<>>
    ELSE (IF Keeps(Window(tokens, k, c), c)
          THEN << [text |-> Window(tokens, k, c),
                   start_line |-> start_line + (k \div 10)] >>
          ELSE <<>>)
         \o split_by_tokens(tokens, start_line, NextOffset(k, c), c)

\* The loop of chunk_file from section n on.
RECURSIVE ChunkSections(_, _, _, _)
ChunkSections(c, path, secs, n) ==
    IF n > Len(secs) THEN <<>>
    ELSE LET sec == secs[n]
             token_count == count_tokens(sec.text)
             sub == split_by_tokens(sec.text, sec.start_line, 0, c)
         IN  (IF token_count <= c.max_tokens
              THEN IF token_count >= c.min_chunk_size
                   THEN << Chunk(path, sec.heading_path, sec.text, sec.start_line) >>
                   ELSE <<>>
              ELSE [j \in 1..Len(sub) |->
                      Chunk(path, sec.heading_path, sub[j].text, sub[j].start_line)])
             \o ChunkSections(c, path, secs, n + 1)

chunk_file(c, path, d) ==
    ChunkSections(c, path, split_by_headings(parse_frontmatter(d)), 1)

\* ---- the files edited
MaxDocLines == 3

BodyKinds == { BodyLine(<<>>), BodyLine(<<"W">>), BodyLine(<<"W", "W">>) }
HeadingKinds == { HeadingLine(1, "A"), HeadingLine(2, "B") }
LineKinds == BodyKinds \cup HeadingKinds
Frontmatters == {0, 2, 3}

Docs ==
    { [fm |-> f, lines |-> ls] :
        f \in Frontmatters,
        ls \in UNION { [1..n -> LineKinds] : n \in 0..MaxDocLines } }

\* One edit of a file: a line is replaced (text edited in place, heading
\* renamed or moved to another level), inserted or deleted, or the
\* frontmatter block gets or loses lines.
Edits(d) ==
    { [d EXCEPT !.lines[j] = l] : j \in 1..Len(d.lines), l \in LineKinds }
    \cup { [d EXCEPT !.lines = SubSeq(d.lines, 1, j) \o <<l>>
                               \o SubSeq(d.lines, j + 1, Len(d.lines))] :
             j \in (IF Len(d.lines) < MaxDocLines THEN 0..Len(d.lines) ELSE {}),
             l \in LineKinds }
    \cup { [d EXCEPT !.lines = SubSeq(d.lines, 1, j - 1)
                               \o SubSeq(d.lines, j + 1, Len(d.lines))] :
             j \in 1..Len(d.lines) }
    \cup { [d EXCEPT !.fm = f] : f \in Frontmatters }

RechunkInit ==
    /\ doc \in Docs
    /\ produced = NotRun
    /\ before = NoVersion
    /\ cfg \in SmallConfigs
    /\ sections = <<>>
    /\ sidx = 0
    /\ chunks = <<>>
    /\ split_i = 0
    /\ sub_chunks = <<>>
    /\ cut = <<>>
    /\ cpc = "off"
    /\ SearchOff
    /\ ReindexOff
    /\ ServeOff
    /\ FilterOff
    /\ StatusOff
    /\ GatewayOff
    /\ IndexerOff
    /\ ScanOff
    /\ LockOff

\* chunker.chunk_file(file_path) on the file as it is.
ChunkFile ==
    /\ ~produced.ran
    /\ produced' = [ran |-> TRUE, chunks |-> chunk_file(cfg, RelativePath, doc)]
    /\ UNCHANGED <<doc, before>>
    /\ UNCHANGED notRechunkVars

\* The file is edited after it was chunked.
EditFile ==
    /\ produced.ran
    /\ \E e \in Edits(doc) \ {doc} :
         /\ doc' = e
         /\ before' = [ran |-> TRUE, doc |-> doc, chunks |-> produced.chunks]
    /\ produced' = NotRun
    /\ UNCHANGED notRechunkVars

RechunkNext ==
    \/ ChunkFile
    \/ EditFile

SpecRechunk == RechunkInit /\ [][RechunkNext]_vars

\* ============================================================ reindex job
\* RAGProcessor.run over a vault of two files, and the collection it writes.

MaxRuns == 2
BatchSize == 100

\* n tokens of running text on one line.
Prose(n) == [j \in 1..n |-> "W"]

\* The versions a file goes through: a section of 60 tokens, the same with
\* its text edited, the same under a renamed heading, and a file too short
\* to give a chunk. vault[f] is the version of file f, 0 when f is not there;
\* the second file is there in its first version or not at all.
Versions ==
    << [fm |-> 0, lines |-> << HeadingLine(1, "A"), BodyLine(Prose(60)) >>],
       [fm |-> 0, lines |-> << HeadingLine(1, "A"), BodyLine(Prose(61)) >>],
       [fm |-> 0, lines |-> << HeadingLine(1, "B"), BodyLine(Prose(60)) >>],
       [fm |-> 0, lines |-> << BodyLine(<<"W">>) >>] >>

Vaults ==
    { v \in [Elems(ReindexFiles) -> 0..Len(Versions)] : v[ReindexFiles[2]] <= 1 }

\* _scan_vault: the markdown files found.
scan_vault(v) == SelectSeq(ReindexFiles, LAMBDA f : v[f] > 0)

\* Mutant of ChunkOne: a file whose chunking raises is not counted.
ChunkOne_nocount(acc, f, v, raises) ==
    IF f \in raises THEN acc
    ELSE LET chs == chunk_file(DefaultConfig, f, Versions[v[f]])
         IN  IF chs # <<>>
             THEN [acc EXCEPT !.all_chunks = @ \o chs, !.files_chunked = @ + 1]
             ELSE acc

\* The body of the loop over md_files: chunk_file raises for the files in
\* raises.
ChunkOne(acc, f, v, raises) ==
    IF f \in raises THEN [acc EXCEPT !.chunk_errors = @ + 1]
    ELSE LET chs == chunk_file(DefaultConfig, f, Versions[v[f]])
         IN  IF chs # <<>>
             THEN [acc EXCEPT !.all_chunks = @ \o chs, !.files_chunked = @ + 1]
             ELSE acc

\* for file_path in md_files, from the n-th file on.
RECURSIVE ChunkLoop(_, _, _, _, _)
ChunkLoop(acc, md_files, n, v, raises) ==
    IF n > Len(md_files) THEN acc
    ELSE ChunkLoop(ChunkOne(acc, md_files[n], v, raises), md_files, n + 1, v, raises)

\* EmbeddingModel.embed_passages: the vector of a text is held as the text
\* the model is given, "passage: " + text.
embed_passages(texts) == [j \in 1..Len(texts) |-> << "passage: ", texts[j] >>]

\* What index_chunks hands to upsert for one chunk.
Entry(chunk, embedding) ==
    [ id |-> chunk.chunk_id,
      document |-> chunk.text,
      embedding |-> embedding,
      metadata |-> [file_path |-> chunk.file_path,
                    heading_path |-> chunk.heading_path,
                    start_line |-> chunk.start_line,
                    end_line |-> chunk.end_line,
                    token_count |-> chunk.token_count] ]

\* Mutant of Put: the entry replaces what was indexed for its file.
Put_replace_file(coll, e) ==
    [x \in { y \in BagToSet(coll) : y.metadata.file_path # e.metadata.file_path }
        |-> coll[x]]
    (+) SetToBag({e})

\* The entries of a collection under another id.
WithoutId(coll, id) == [x \in { y \in BagToSet(coll) : y.id # id } |-> coll[x]]

\* collection.upsert of one entry: it overwrites the entry of the same id.
Put(coll, e) == WithoutId(coll, e.id) (+) SetToBag({e})

\* Mutant of upsert: entries are added, none is overwritten.
RECURSIVE upsert_add(_, _)
upsert_add(coll, batch) ==
    IF batch = <<>> THEN coll
    ELSE upsert_add(coll (+) SetToBag({Head(batch)}), Tail(batch))

\* collection.upsert(ids, documents, metadatas, embeddings)
RECURSIVE upsert(_, _)
upsert(coll, batch) ==
    IF batch = <<>> THEN coll
    ELSE upsert(Put(coll, Head(batch)), Tail(batch))

\* for i in range(0, len(ids), batch_size): self.collection.upsert(...)
RECURSIVE UpsertBatches(_, _, _, _)
UpsertBatches(coll, entries, k, batch_size) ==
    IF k >= Len(entries) THEN coll
    ELSE UpsertBatches(
            upsert(coll, SubSeq(entries, k + 1,
                                IF k + batch_size < Len(entries)
                                THEN k + batch_size ELSE Len(entries))),
            entries, k + batch_size, batch_size)

\* VaultSearcher.index_chunks; embed_passages raises when a chunk of a file
\* in embed_raises is among the texts.
index_chunks(st, chs, embed_raises, batch_size) ==
    IF chs = <<>> THEN [raised |-> FALSE, store |-> st, total_indexed |-> 0]
    ELSE IF \E j \in 1..Len(chs) : chs[j].file_path \in embed_raises
    THEN [raised |-> TRUE, store |-> st, total_indexed |-> 0]
    ELSE LET embeddings == embed_passages([j \in 1..Len(chs) |-> chs[j].text])
             entries == [j \in 1..Len(chs) |-> Entry(chs[j], embeddings[j])]
         IN  [raised |-> FALSE,
              store |-> [exists |-> TRUE,
                         entries |-> UpsertBatches(st.entries, entries, 0, batch_size)],
              total_indexed |-> Len(chs)]

\* VaultSearcher.clear: delete_collection raises when there is no
\* collection, or for a reason of its own (delete_fails); either way the
\* exception is logged and dropped.
clear(st, delete_fails) ==
    IF st.exists /\ ~delete_fails
    THEN [exists |-> FALSE, entries |-> EmptyBag]
    ELSE st

ReindexInit ==
    /\ vault \in Vaults
    /\ store = [exists |-> FALSE, entries |-> EmptyBag]
    /\ job = NoJob
    /\ outcome = NoOutcome
    /\ last = NoLast
    /\ SearchOff
    /\ ChunkerOff
    /\ RechunkOff
    /\ ServeOff
    /\ FilterOff
    /\ StatusOff
    /\ GatewayOff
    /\ IndexerOff
    /\ ScanOff
    /\ LockOff

\* run() is entered: RAGProcessor(recreate=...), a fresh VaultSearcher.
RunStart ==
    /\ job.pc \in {"idle", "ended"}
    /\ job.run_no < MaxRuns
    /\ \E recreate \in BOOLEAN :
         job' = [NoJob EXCEPT !.pc = IF recreate THEN "clear" ELSE "scan",
                              !.recreate = recreate,
                              !.run_no = job.run_no + 1]
    /\ outcome' = NoOutcome
    /\ UNCHANGED <<vault, store, last>>
    /\ UNCHANGED notReindexVars

\* if self.recreate: searcher.clear(); delete_collection works or not.
Clear ==
    /\ job.pc = "clear"
    /\ \E delete_fails \in BOOLEAN :
         /\ store' = clear(store, delete_fails)
         /\ job' = [job EXCEPT !.pc = "scan", !.delete_fails = delete_fails]
    /\ UNCHANGED <<vault, outcome, last>>
    /\ UNCHANGED notReindexVars

\* md_files = self._scan_vault() and the loop over md_files; chunk_file
\* raises for some of the files.
ScanAndChunk ==
    /\ job.pc = "scan"
    /\ \E chunk_raises \in SUBSET Elems(scan_vault(vault)) :
         job' = ChunkLoop([job EXCEPT !.pc = "index", !.md_files = scan_vault(vault),
                                      !.chunk_raises = chunk_raises],
                          scan_vault(vault), 1, vault, chunk_raises)
    /\ UNCHANGED <<vault, store, outcome, last>>
    /\ UNCHANGED notReindexVars

\* indexed_count = searcher.index_chunks(all_chunks, batch_size=100); the
\* embedding model raises on the chunks of some files or on none; an
\* exception leaves run() through its outer handler.
IndexChunks ==
    /\ job.pc = "index"
    /\ \E embed_raises \in SUBSET { job.all_chunks[j].file_path :
                                      j \in 1..Len(job.all_chunks) } :
         LET r == index_chunks(store, job.all_chunks, embed_raises, BatchSize)
         IN  IF r.raised
             THEN /\ job' = [job EXCEPT !.pc = "ended", !.embed_raises = embed_raises]
                  /\ outcome' = [NoOutcome EXCEPT !.done = TRUE]
                  /\ last' = NoLast
                  /\ UNCHANGED store
             ELSE /\ job' = [job EXCEPT !.pc = "summary",
                                        !.indexed_count = r.total_indexed]
                  /\ store' = r.store
                  /\ UNCHANGED <<outcome, last>>
    /\ UNCHANGED vault
    /\ UNCHANGED notReindexVars

\* stats = searcher.get_stats(), the summary, return ProcessorResult(...)
Summary ==
    /\ job.pc = "summary"
    /\ store' = [store EXCEPT !.exists = TRUE]
    /\ job' = [job EXCEPT !.pc = "ended"]
    /\ outcome' = [done |-> TRUE, success |-> TRUE,
                   files_scanned |-> Len(job.md_files),
                   files_chunked |-> job.files_chunked,
                   total_chunks |-> Len(job.all_chunks),
                   chunks_indexed |-> job.indexed_count,
                   chunk_errors |-> job.chunk_errors]
    /\ last' = [valid |-> TRUE, entries |-> store.entries,
                chunks |-> job.all_chunks, chunk_raises |-> job.chunk_raises]
    /\ UNCHANGED vault
    /\ UNCHANGED notReindexVars

\* A file of the vault is written, created or deleted between two runs.
VaultEdit ==
    /\ job.pc = "ended"
    /\ \E f \in Elems(ReindexFiles), v \in 0..Len(Versions) :
         /\ v # vault[f]
         /\ [vault EXCEPT ![f] = v] \in Vaults
         /\ vault' = [vault EXCEPT ![f] = v]
    /\ job' = [job EXCEPT !.pc = "idle"]
    /\ last' = NoLast
    /\ UNCHANGED <<store, outcome>>
    /\ UNCHANGED notReindexVars

\* A search is served: VaultSearcher.collection is get_or_create_collection.
SearchIndex ==
    /\ ~store.exists
    /\ store' = [store EXCEPT !.exists = TRUE]
    /\ UNCHANGED <<vault, job, outcome, last>>
    /\ UNCHANGED notReindexVars

ReindexNext ==
    \/ RunStart
    \/ Clear
    \/ ScanAndChunk
    \/ IndexChunks
    \/ Summary
    \/ VaultEdit
    \/ SearchIndex

SpecReindex == ReindexInit /\ [][ReindexNext]_vars

\* ============================================ the process serving searches
\* search_vault is a coroutine run by the event loop of the API process. It
\* runs from the moment the loop dispatches it until it returns: none of its
\* awaits suspends, since _semantic_search and _text_search call
\* searcher.search and subprocess.run directly.

ServeInit ==
    /\ handlers = [r \in 1..MaxRequests |-> NoHandler]
    /\ proc \in { [NoProc EXCEPT !.nonempty = b] : b \in BOOLEAN }
    /\ SearchOff
    /\ ChunkerOff
    /\ RechunkOff
    /\ ReindexOff
    /\ FilterOff
    /\ StatusOff
    /\ GatewayOff
    /\ IndexerOff
    /\ ScanOff
    /\ LockOff

\* A search request reaches the process; its coroutine is scheduled.
Arrive(r) ==
    /\ handlers[r].pc = "new"
    /\ \E t \in {"semantic", "text", "hybrid"} :
         handlers' = [handlers EXCEPT ![r].pc = "queued", ![r].search_type = t]
    /\ UNCHANGED proc
    /\ UNCHANGED notServeVars

\* The event loop, running nothing, runs the coroutine: search_vault starts.
Dispatch(r) ==
    /\ handlers[r].pc = "queued"
    /\ proc.loop = 0
    /\ proc' = [proc EXCEPT !.loop = r]
    /\ handlers' = [handlers EXCEPT ![r].pc =
                      IF handlers[r].search_type = "text" THEN "text" ELSE "semantic"]
    /\ UNCHANGED notServeVars

\* _semantic_search: searcher = VaultSearcher(...); searcher.search reads
\* self.collection.count(), which loads the client of this searcher, and,
\* the collection not being empty, self.embedding_model, which constructs
\* the EmbeddingModel of this searcher; embed_query loads its model.
SemanticBegin(r) ==
    /\ handlers[r].pc = "semantic"
    /\ proc.loop = r
    /\ LET fresh == NewSearcher
           build_client == ~fresh.client
           build_model == proc.nonempty /\ ~fresh.embedding_model
       IN  /\ handlers' =
                [handlers EXCEPT
                   ![r].searcher = [client |-> TRUE, collection |-> TRUE,
                                    embedding_model |-> proc.nonempty],
                   ![r].pc = IF proc.nonempty THEN "embedding"
                             ELSE IF handlers[r].search_type = "hybrid" THEN "text"
                             ELSE "respond"]
           /\ proc' = [proc EXCEPT
                         !.clients = @ + (IF build_client THEN 1 ELSE 0),
                         !.models = @ + (IF build_model THEN 1 ELSE 0),
                         !.loads = @ + (IF build_model THEN 1 ELSE 0)]
    /\ UNCHANGED notServeVars

\* embed_query returns, collection.query returns, the hits are filtered.
SemanticEnd(r) ==
    /\ handlers[r].pc = "embedding"
    /\ proc.loop = r
    /\ \E hits \in BOOLEAN :
         handlers' = [handlers EXCEPT ![r].pc =
                        IF ~hits /\ handlers[r].search_type = "hybrid"
                        THEN "text" ELSE "respond"]
    /\ UNCHANGED proc
    /\ UNCHANGED notServeVars

\* _text_search: subprocess.run(cmd, ..., timeout=30) is called.
TextBegin(r) ==
    /\ handlers[r].pc = "text"
    /\ proc.loop = r
    /\ handlers' = [handlers EXCEPT ![r].pc = "subprocess"]
    /\ UNCHANGED proc
    /\ UNCHANGED notServeVars

\* subprocess.run returns: rg has exited or the timeout has passed.
TextEnd(r) ==
    /\ handlers[r].pc = "subprocess"
    /\ proc.loop = r
    /\ handlers' = [handlers EXCEPT ![r].pc = "respond"]
    /\ UNCHANGED proc
    /\ UNCHANGED notServeVars

\* search_vault returns its SearchResponse; the loop is free again.
Respond(r) ==
    /\ handlers[r].pc = "respond"
    /\ proc.loop = r
    /\ handlers' = [handlers EXCEPT ![r].pc = "done"]
    /\ proc' = [proc EXCEPT !.loop = 0]
    /\ UNCHANGED notServeVars

\* A step of the handler of request r.
Handle(r) ==
    \/ Dispatch(r)
    \/ SemanticBegin(r)
    \/ SemanticEnd(r)
    \/ TextBegin(r)
    \/ TextEnd(r)
    \/ Respond(r)

ServeNext ==
    \E r \in 1..MaxRequests :
        \/ Arrive(r)
        \/ Handle(r)

SpecServe == ServeInit /\ [][ServeNext]_vars

\* ============================================== filtered semantic search
\* VaultSearcher.search over a collection whose entries carry para_category,
\* tags and file_path.

MaxStored == 2

\* json.dumps of a list and json.loads of what it gave.
json_dumps(x) == << "json", x >>
json_loads(x) == x[2]

\* The metadata index_chunks stores with a chunk: tags as a JSON string,
\* file_path as the characters of the path.
StoredKinds ==
    [ para_category : {"PROJECT", "AREA"},
      tags : { json_dumps(<<>>), json_dumps(<<"#a">>), json_dumps(<<"#a", "#b">>) },
      file_path : { <<"A", "/", "x">>, <<"b">> } ]

\* The i-th nearest entry: its id and its similarity (1 - distance), in
\* tenths.
StoredEntry(kind, i) ==
    [ id |-> ChunkIds[i], score |-> 10 - 3 * i, metadata |-> kind ]

Collections ==
    UNION { { [i \in 1..n |-> StoredEntry(kinds[i], i)] : kinds \in [1..n -> StoredKinds] } :
            n \in 0..MaxStored }

Queries ==
    [ top_k : 1..MaxTopK,
      min_score : {0, 5},
      para_category : {"", "PROJECT"},
      tags : { <<>>, <<"#a">>, <<"#b", "#c">> },
      path_contains : { <<>>, <<"a">>, <<"B">> } ]

\* collection.query(n_results, where): the n_results nearest entries among
\* those whose metadata match the where filter.
collection_query(entries, n_results, para_category) ==
    LET matching == SelectSeq(entries,
                              LAMBDA e : para_category = ""
                                         \/ e.metadata.para_category = para_category)
    IN  SubSeq(matching, 1, IF n_results < Len(matching) THEN n_results ELSE Len(matching))

\* Mutant of TagMatch: the tag filter lets every chunk through.
TagMatch_skip(tags, chunk_tags) == TRUE

\* not tags, or any(tag in chunk_tags for tag in tags)
TagMatch(tags, chunk_tags) ==
    tags = <<>> \/ \E t \in Elems(tags) : t \in Elems(chunk_tags)

\* not path_contains, or path_contains.lower() in file_path.lower()
PathMatch(path_contains, file_path) ==
    path_contains = <<>> \/ Contains(Lower(path_contains), Lower(file_path))

\* formatted_results.append({...})
Formatted(e) ==
    [ chunk_id |-> e.id, score |-> e.score,
      file_path |-> e.metadata.file_path,
      para_category |-> e.metadata.para_category,
      tags |-> json_loads(e.metadata.tags) ]

\* The loop over the hits, from the n-th hit on.
RECURSIVE FormatLoop(_, _, _, _)
FormatLoop(hits, n, formatted_results, q) ==
    IF n > Len(hits) THEN formatted_results
    ELSE IF \/ hits[n].score < q.min_score
            \/ ~TagMatch(q.tags, json_loads(hits[n].metadata.tags))
            \/ ~PathMatch(q.path_contains, hits[n].metadata.file_path)
    THEN FormatLoop(hits, n + 1, formatted_results, q)
    ELSE IF Len(formatted_results) + 1 >= q.top_k
    THEN Append(formatted_results, Formatted(hits[n]))
    ELSE FormatLoop(hits, n + 1, Append(formatted_results, Formatted(hits[n])), q)

\* VaultSearcher.search
search(entries, q) ==
    IF Len(entries) = 0 THEN <<>>
    ELSE FormatLoop(
            collection_query(entries,
                             IF q.path_contains # <<>> \/ q.tags # <<>>
                             THEN q.top_k * 2 ELSE q.top_k,
                             q.para_category),
            1, <<>>, q)

FilterInit ==
    /\ stored \in Collections
    /\ fq = NoQuery
    /\ fres = NotSearched
    /\ SearchOff
    /\ ChunkerOff
    /\ RechunkOff
    /\ ReindexOff
    /\ ServeOff
    /\ StatusOff
    /\ GatewayOff
    /\ IndexerOff
    /\ ScanOff
    /\ LockOff

\* searcher.search(query, top_k, min_score, para_category, tags, path_contains)
FilteredSearch ==
    /\ ~fres.returned
    /\ \E q \in Queries :
         /\ fq' = q
         /\ fres' = [returned |-> TRUE, results |-> search(stored, q)]
    /\ UNCHANGED stored
    /\ UNCHANGED notFilterVars

FilterNext == FilteredSearch

SpecFilter == FilterInit /\ [][FilterNext]_vars

\* --------------------------------------------------------------------
\* search_vault over an indexed vault: the semantic backend is
\* VaultSearcher.search over `stored`, the lexical backend is ripgrep over
\* the files the stored chunks were cut from.
\* --------------------------------------------------------------------

\* What a request of the endpoint carries besides the query text.
FilterRequests ==
    [ search_type : {"semantic", "text", "hybrid"},
      top_k : {1, MaxTopK},
      min_score : {0},
      para_category : {"", "PROJECT"},
      tags : { <<>>, <<"#a">> },
      path_contains : { <<>>, <<"a">> } ]

\* SearchResult(...) of _text_search for a line ripgrep matched inside the
\* chunk e.  `chunk_id` is not in the code's result: it records which chunk
\* the matched line lies in.
TextHit(e) ==
    [ chunk_id |-> e.id, file_path |-> e.metadata.file_path,
      search_type |-> "text" ]

\* The loop of _text_search over the match lines, from the n-th on: path
\* filter, one result per file, at most top_k results.
RECURSIVE TextLoop(_, _, _, _, _)
TextLoop(lines, n, results, top_k, path_contains) ==
    IF n > Len(lines) THEN results
    ELSE IF \/ ~PathMatch(path_contains, lines[n].metadata.file_path)
            \/ \E k \in 1..Len(results) :
                 results[k].file_path = lines[n].metadata.file_path
    THEN TextLoop(lines, n + 1, results, top_k, path_contains)
    ELSE IF Len(results) + 1 >= top_k
    THEN Append(results, TextHit(lines[n]))
    ELSE TextLoop(lines, n + 1, Append(results, TextHit(lines[n])), top_k,
                  path_contains)

\* _text_search(query, top_k, path_contains) when ripgrep matches the query
\* in the chunks numbered by `matched`.
text_search_indexed(entries, matched, top_k, path_contains) ==
    TextLoop(SelectSeq(entries, LAMBDA e : \E j \in matched : entries[j] = e),
             1, <<>>, top_k, path_contains)

\* search_vault(query, search_type, top_k, min_score, para_category, tags,
\* path_contains): para_category and tag_list go to _semantic_search only.
search_vault_indexed(r, entries, matched) ==
    route(r,
          [raised |-> FALSE, results |-> search(entries, r), consulted |-> {},
           log |-> <<>>],
          [results |-> text_search_indexed(entries, matched, r.top_k,
                                           r.path_contains),
           consulted |-> {}, log |-> <<>>]).resp

HybridInit == FilterInit

\* One request to the search endpoint.
HybridSearch ==
    /\ ~fres.returned
    /\ \E r \in FilterRequests, matched \in SUBSET (1..Len(stored)) :
         /\ fq' = r
         /\ fres' = [returned |-> TRUE,
                     results |-> search_vault_indexed(r, stored, matched).results,
                     search_type |-> search_vault_indexed(r, stored, matched).search_type]
    /\ UNCHANGED stored
    /\ UNCHANGED notFilterVars

HybridNext == HybridSearch

SpecHybrid == HybridInit /\ [][HybridNext]_vars

\* --------------------------------------------------------------------
\* GET /search/status: get_search_status and VaultSearcher.get_stats.
\* --------------------------------------------------------------------

\* get_stats when collection.count() returns count
StatsOf(count) ==
    [keys |-> {"collection", "chunk_count", "persist_directory", "status"},
     status |-> IF count > 0 THEN "ready" ELSE "empty", chunk_count |-> count]

\* {"error": str(e), "status": "error"}: what both except branches build
StatsError == [keys |-> {"error", "status"}, status |-> "error", chunk_count |-> 0]

StatusInit ==
    /\ chroma \in { NoChroma, [dir |-> TRUE, collection |-> FALSE, count |-> 0] }
                    \cup { [dir |-> TRUE, collection |-> TRUE, count |-> n] :
                           n \in 0..MaxCount }
    /\ scall = NoCall
    /\ SearchOff
    /\ ChunkerOff
    /\ RechunkOff
    /\ ReindexOff
    /\ ServeOff
    /\ FilterOff
    /\ GatewayOff
    /\ IndexerOff
    /\ ScanOff
    /\ LockOff

\* get_search_status up to `if persist_dir.exists():`
StatusBegin ==
    /\ scall.pc \in {"idle", "done"}
    /\ scall' = [NoCall EXCEPT !.pc = IF chroma.dir THEN "stats" ELSE "rg"]
    /\ UNCHANGED chroma
    /\ UNCHANGED notStatusVars

\* The try block: import, VaultSearcher(...), searcher.get_stats().  The
\* client property makes the directory, the collection property gets or
\* creates the collection; either may raise, as may the import.
GetStats ==
    /\ scall.pc = "stats"
    /\ \E fault \in {"none", "import", "client", "count"} :
         /\ scall' = [scall EXCEPT
                        !.pc = "rg",
                        !.failed = fault # "none",
                        !.semantic_stats = IF fault = "none"
                                           THEN StatsOf(chroma.count)
                                           ELSE StatsError]
         /\ chroma' = IF fault \in {"import", "client"}
                      THEN chroma
                      ELSE [chroma EXCEPT !.dir = TRUE, !.collection = TRUE]
    /\ UNCHANGED notStatusVars

\* subprocess.run(["rg", "--version"]) and the return
RgVersion ==
    /\ scall.pc = "rg"
    /\ \E available \in BOOLEAN :
         scall' = [scall EXCEPT !.pc = "done", !.text_search = available]
    /\ UNCHANGED chroma
    /\ UNCHANGED notStatusVars

\* Another process adds an entry to the collection (index_chunks).
StatusIndexed ==
    /\ chroma.count < MaxCount
    /\ chroma' = [dir |-> TRUE, collection |-> TRUE, count |-> chroma.count + 1]
    /\ UNCHANGED scall
    /\ UNCHANGED notStatusVars

\* Another process clears the collection (clear).
StatusCleared ==
    /\ chroma.collection
    /\ chroma' = [chroma EXCEPT !.count = 0]
    /\ UNCHANGED scall
    /\ UNCHANGED notStatusVars

\* The data directory is removed.
StatusRemoved ==
    /\ chroma.dir
    /\ chroma' = NoChroma
    /\ UNCHANGED scall
    /\ UNCHANGED notStatusVars

StatusNext ==
    \/ StatusBegin
    \/ GetStats
    \/ RgVersion
    \/ StatusIndexed
    \/ StatusCleared
    \/ StatusRemoved

SpecStatus == StatusInit /\ [][StatusNext]_vars

\* --------------------------------------------------------------------
\* EmbeddingModel: the lazily loaded provider and its device fallback.
\* --------------------------------------------------------------------

\* The devices a gateway is constructed for.
Devices == {"mps", "cuda"}

\* Mutant of model_property: the provider loaded by the fallback is returned
\* but not kept.
model_property_forget(g, ok_device, ok_cpu) ==
    IF g.model # None
    THEN [gateway |-> g, loads |-> <<>>, raised |-> FALSE]
    ELSE IF ok_device
    THEN [gateway |-> [g EXCEPT !.model = g.device],
          loads |-> << [device |-> g.device, ok |-> TRUE] >>,
          raised |-> FALSE]
    ELSE [gateway |-> g,
          loads |-> << [device |-> g.device, ok |-> FALSE],
                       [device |-> "cpu", ok |-> ok_cpu] >>,
          raised |-> ~ok_cpu]

\* The property `model`: what it leaves in the gateway, the constructions it
\* makes, whether it raises.  ok_device and ok_cpu say whether a construction
\* on self.device and on "cpu" succeeds.
model_property(g, ok_device, ok_cpu) ==
    IF g.model # None
    THEN [gateway |-> g, loads |-> <<>>, raised |-> FALSE]
    ELSE IF ok_device
    THEN [gateway |-> [g EXCEPT !.model = g.device],
          loads |-> << [device |-> g.device, ok |-> TRUE] >>,
          raised |-> FALSE]
    ELSE IF ok_cpu
    THEN [gateway |-> [g EXCEPT !.model = "cpu", !.device = "cpu"],
          loads |-> << [device |-> g.device, ok |-> FALSE],
                       [device |-> "cpu", ok |-> TRUE] >>,
          raised |-> FALSE]
    ELSE [gateway |-> g,
          loads |-> << [device |-> g.device, ok |-> FALSE],
                       [device |-> "cpu", ok |-> FALSE] >>,
          raised |-> TRUE]

GatewayInit ==
    /\ gateway \in { NewGateway(d) : d \in Devices }
    /\ gcall = NoCalls
    /\ loaded = <<>>
    /\ SearchOff
    /\ ChunkerOff
    /\ RechunkOff
    /\ ReindexOff
    /\ ServeOff
    /\ FilterOff
    /\ StatusOff
    /\ IndexerOff
    /\ ScanOff
    /\ LockOff

\* embed_passages(texts) or embed_query(query) is called; embed_passages
\* returns at once for an empty list.
EmbedCall ==
    /\ gcall.pc = "idle"
    /\ gcall.n < MaxCalls
    /\ \E kind \in {"passages", "query"}, empty \in BOOLEAN :
         gcall' = [pc |-> IF kind = "passages" /\ empty THEN "idle" ELSE "model",
                   n |-> gcall.n + 1, raised |-> FALSE]
    /\ UNCHANGED <<gateway, loaded>>
    /\ UNCHANGED notGatewayVars

\* self.model is read.
ModelProperty ==
    /\ gcall.pc = "model"
    /\ \E ok_device \in BOOLEAN, ok_cpu \in BOOLEAN :
         LET r == model_property(gateway, ok_device, ok_cpu)
         IN  /\ gateway' = r.gateway
             /\ loaded' = loaded \o r.loads
             /\ gcall' = [gcall EXCEPT !.pc = IF r.raised THEN "idle" ELSE "encode",
                                       !.raised = r.raised]
    /\ UNCHANGED notGatewayVars

\* .encode(...) returns or raises.
Encode ==
    /\ gcall.pc = "encode"
    /\ \E raises \in BOOLEAN :
         gcall' = [gcall EXCEPT !.pc = "idle", !.raised = raises]
    /\ UNCHANGED <<gateway, loaded>>
    /\ UNCHANGED notGatewayVars

GatewayNext ==
    \/ EmbedCall
    \/ ModelProperty
    \/ Encode

SpecGateway == GatewayInit /\ [][GatewayNext]_vars

\* --------------------------------------------------------------------
\* VaultSearcher.index_chunks, call by call.
\* --------------------------------------------------------------------

\* The lists of chunks index_chunks is given: up to MaxChunks chunks of one
\* file, the same chunk possibly more than once.
ChunkLists ==
    UNION { [1..n -> { Chunk(RelativePath, "ROOT", <<"W">>, l) : l \in 0..1 }] :
            n \in 0..MaxChunks }

\* Mutant of BatchOf: a batch holds one entry more than batch_size.
BatchOf_long(list, k, batch_size) ==
    SubSeq(list, k + 1,
           IF k + batch_size + 1 < Len(list) THEN k + batch_size + 1 ELSE Len(list))

\* list[i:i + batch_size]
BatchOf(list, k, batch_size) ==
    SubSeq(list, k + 1, IF k + batch_size < Len(list) THEN k + batch_size ELSE Len(list))

IndexerInit ==
    /\ ix = NoIndexing
    /\ calls = <<>>
    /\ SearchOff
    /\ ChunkerOff
    /\ RechunkOff
    /\ ReindexOff
    /\ ServeOff
    /\ FilterOff
    /\ StatusOff
    /\ GatewayOff
    /\ ScanOff
    /\ LockOff

\* index_chunks(chunks, batch_size) is called: `if not chunks: return 0`.
IndexCall ==
    /\ ix.pc = "idle"
    /\ \E chs \in ChunkLists, batch_size \in 1..MaxBatch :
         ix' = [NoIndexing EXCEPT !.pc = IF chs = <<>> THEN "done" ELSE "embed",
                                  !.chunks = chs, !.batch_size = batch_size]
    /\ UNCHANGED calls
    /\ UNCHANGED notIndexerVars

\* texts = [...]; embeddings = self.embedding_model.embed_passages(texts);
\* the loop that fills ids, documents, metadatas and embedding_list.
EmbedAll ==
    /\ ix.pc = "embed"
    /\ LET texts == [j \in 1..Len(ix.chunks) |-> ix.chunks[j].text]
           embeddings == embed_passages(texts)
       IN  /\ calls' = Append(calls, [op |-> "embed_passages", n |-> Len(texts),
                                      entries |-> <<>>])
           /\ ix' = [ix EXCEPT !.pc = "upsert",
                               !.entries = [j \in 1..Len(ix.chunks) |->
                                              Entry(ix.chunks[j], embeddings[j])]]
    /\ UNCHANGED notIndexerVars

\* One turn of `for i in range(0, len(ids), batch_size)`.
UpsertBatch ==
    /\ ix.pc = "upsert"
    /\ ix.i < Len(ix.entries)
    /\ LET batch == BatchOf(ix.entries, ix.i, ix.batch_size)
       IN  /\ calls' = Append(calls, [op |-> "upsert", n |-> Len(batch),
                                      entries |-> batch])
           /\ ix' = [ix EXCEPT !.i = @ + ix.batch_size,
                               !.total_indexed = @ + Len(batch)]
    /\ UNCHANGED notIndexerVars

\* return total_indexed
IndexReturn ==
    /\ ix.pc = "upsert"
    /\ ix.i >= Len(ix.entries)
    /\ ix' = [ix EXCEPT !.pc = "done", !.result = ix.total_indexed]
    /\ UNCHANGED calls
    /\ UNCHANGED notIndexerVars

IndexerNext ==
    \/ IndexCall
    \/ EmbedAll
    \/ UpsertBatch
    \/ IndexReturn

SpecIndexer == IndexerInit /\ [][IndexerNext]_vars

\* --------------------------------------------------------------------
\* RAGProcessor._scan_vault over a directory tree.
\* --------------------------------------------------------------------

INCLUDE_FOLDERS == {"01-PROJECTS", "02-AREAS", "03-RESOURCES", "04-ARCHIVE", "01-Private"}
EXCLUDE_FOLDERS == {".obsidian", ".trash", "templates", "Templates", "_templates"}

\* A file under the vault root: the directories from the root down to it and
\* its name, character by character.
File(dirs, name) == [dirs |-> dirs, name |-> name]

TreeFiles ==
    { File(<<"01-PROJECTS">>, <<"a", ".", "m", "d">>),
      File(<<"01-PROJECTS", "templates">>, <<"t", ".", "m", "d">>),
      File(<<"01-PROJECTS">>, <<".", "h", ".", "m", "d">>),
      File(<<"02-AREAS">>, <<"b", ".", "t", "x", "t">>),
      File(<<"notes">>, <<"n", ".", "m", "d">>),
      File(<<>>, <<"r", ".", "m", "d">>),
      File(<<".obsidian">>, <<"c", ".", "m", "d">>) }

\* Where the vault root is: the components of vault_path.
Locations == { <<"/", "home", "Obsidian-Private">>, <<"/", "Templates", "Obsidian-Private">> }

\* fnmatch(name, "*.md")
IsMarkdown(name) ==
    Len(name) >= 3 /\ SubSeq(name, Len(name) - 2, Len(name)) = <<".", "m", "d">>

\* root.rglob("*.md") for the folder `dirs` of the vault (<<>>: the root)
rglob(files, dirs) ==
    { f \in files : /\ Len(f.dirs) >= Len(dirs)
                    /\ SubSeq(f.dirs, 1, Len(dirs)) = dirs
                    /\ IsMarkdown(f.name) }

\* Mutant of should_exclude: no file is excluded.
should_exclude_never(location, f) == FALSE

\* _should_exclude(file_path): file_path.parts are the components of the
\* vault root followed by those below it.  (The last part, the file name,
\* ends in ".md" and is no excluded name.)
should_exclude(location, f) ==
    \E excluded \in EXCLUDE_FOLDERS : excluded \in Elems(location \o f.dirs)

\* _scan_vault: the files it returns, as a set.  A folder exists when
\* something lies in it.
ScanVault(t) ==
    LET existing == { folder \in INCLUDE_FOLDERS :
                        \E f \in t.files : f.dirs # <<>> /\ f.dirs[1] = folder }
        search_roots == IF existing = {} THEN { <<>> }
                        ELSE { <<folder>> : folder \in existing }
    IN  { f \in UNION { rglob(t.files, root) : root \in search_roots } :
            /\ ~should_exclude(t.location, f)
            /\ f.name[1] # "." }

ScanInit ==
    /\ tree \in [location : Locations, files : SUBSET TreeFiles]
    /\ scanned = NotScanned
    /\ SearchOff
    /\ ChunkerOff
    /\ RechunkOff
    /\ ReindexOff
    /\ ServeOff
    /\ FilterOff
    /\ StatusOff
    /\ GatewayOff
    /\ IndexerOff
    /\ LockOff

\* md_files = self._scan_vault()
Scan ==
    /\ ~scanned.ran
    /\ scanned' = [ran |-> TRUE, md_files |-> ScanVault(tree)]
    /\ UNCHANGED tree
    /\ UNCHANGED notScanVars

ScanNext == Scan

SpecScan == ScanInit /\ [][ScanNext]_vars

\* --------------------------------------------------------------------
\* _split_by_tokens under any configuration the constructor takes.
\* --------------------------------------------------------------------

\* Iterations of the while loop of _split_by_tokens followed for one section.
MaxSplitSteps == 4

\* __init__ stores max_tokens and overlap_tokens as given: configurations
\* with overlap_tokens = max_tokens are among them.
AnyConfigs ==
    SmallConfigs \cup { [max_tokens |-> 3, overlap_tokens |-> 3, min_chunk_size |-> 2] }

AnyConfigInit ==
    /\ \E c \in AnyConfigs, f \in SmallFiles :
         /\ cfg = c
         /\ sections = f
    /\ sidx = 1
    /\ chunks = <<>>
    /\ split_i = 0
    /\ sub_chunks = <<>>
    /\ cut = <<>>
    /\ cpc = "section"
    /\ SearchOff
    /\ RechunkOff
    /\ ReindexOff
    /\ ServeOff
    /\ FilterOff
    /\ StatusOff
    /\ GatewayOff
    /\ IndexerOff
    /\ ScanOff
    /\ LockOff

\* One iteration of the while loop, followed for MaxSplitSteps iterations.
SplitStepFollowed ==
    /\ Len(cut) < MaxSplitSteps
    /\ SplitStep

AnyConfigNext ==
    \/ WholeSection
    \/ SplitBegin
    \/ SplitStepFollowed
    \/ SplitEnd
    \/ ChunkReturn

SpecAnyConfig == AnyConfigInit /\ [][AnyConfigNext]_vars

\* --------------------------------------------------------------------
\* POST /processors/run, _run_processor_task and LockManager.
\* --------------------------------------------------------------------

LockInit ==
    /\ lockfile = NoLockFile
    /\ tasks \in { [t \in 1..MaxTasks |-> NewTask(p[t])] :
                     p \in [1..MaxTasks -> Processes] }
    /\ SearchOff
    /\ ChunkerOff
    /\ RechunkOff
    /\ ReindexOff
    /\ ServeOff
    /\ FilterOff
    /\ StatusOff
    /\ GatewayOff
    /\ IndexerOff
    /\ ScanOff

\* acquire and release have no await: another task of the same process does
\* not run between their system calls.  Tasks of other processes do.
Scheduled(t) ==
    \A u \in 1..MaxTasks \ {t} :
        tasks[u].process = tasks[t].process => tasks[u].pc \notin {"flock", "unlink"}

\* LockManager.is_locked: the file exists and its flock is held.
is_locked == lockfile.path # 0 /\ lockfile.held[lockfile.path] # 0

\* run_processor: 409 when is_locked, else a job is created and the task is
\* scheduled.
RunRequest(t) ==
    /\ tasks[t].pc = "new"
    /\ Scheduled(t)
    /\ tasks' = [tasks EXCEPT ![t].pc = IF is_locked THEN "rejected" ELSE "scheduled",
                              ![t].job = IF is_locked THEN None ELSE "pending"]
    /\ UNCHANGED lockfile
    /\ UNCHANGED notLockVars

\* acquire: fd = os.open(lock_file, O_CREAT | O_RDWR)
AcquireOpen(t) ==
    /\ tasks[t].pc = "scheduled"
    /\ Scheduled(t)
    /\ IF lockfile.path = 0
       THEN /\ lockfile' = [lockfile EXCEPT !.path = lockfile.inodes + 1,
                                            !.inodes = lockfile.inodes + 1]
            /\ tasks' = [tasks EXCEPT ![t].pc = "flock",
                                      ![t].fd = lockfile.inodes + 1]
       ELSE /\ tasks' = [tasks EXCEPT ![t].pc = "flock", ![t].fd = lockfile.path]
            /\ UNCHANGED lockfile
    /\ UNCHANGED notLockVars

\* acquire: fcntl.flock(fd, LOCK_EX | LOCK_NB); on BlockingIOError it returns
\* False and the task marks the job failed and returns.
AcquireFlock(t) ==
    /\ tasks[t].pc = "flock"
    /\ IF lockfile.held[tasks[t].fd] # 0
       THEN /\ tasks' = [tasks EXCEPT ![t].pc = "done", ![t].job = "failed"]
            /\ UNCHANGED lockfile
       ELSE /\ lockfile' = [lockfile EXCEPT !.held[tasks[t].fd] = t]
            /\ tasks' = [tasks EXCEPT ![t].pc = "locked"]
    /\ UNCHANGED notLockVars

\* update_job_status(job_id, "running"); processor.run() begins.
RunBegin(t) ==
    /\ tasks[t].pc = "locked"
    /\ Scheduled(t)
    /\ tasks' = [tasks EXCEPT ![t].pc = "running", ![t].job = "running",
                              ![t].ran = TRUE]
    /\ UNCHANGED lockfile
    /\ UNCHANGED notLockVars

\* processor.run() returns a result or raises; the job is updated.
RunEnd(t) ==
    /\ tasks[t].pc = "running"
    /\ Scheduled(t)
    /\ \E how \in {"success", "failure", "exception"} :
         tasks' = [tasks EXCEPT ![t].pc = "release",
                                ![t].job = IF how = "success" THEN "succeeded"
                                           ELSE "failed"]
    /\ UNCHANGED lockfile
    /\ UNCHANGED notLockVars

\* finally: release: fcntl.flock(fd, LOCK_UN); os.close(fd)
ReleaseUnlock(t) ==
    /\ tasks[t].pc = "release"
    /\ Scheduled(t)
    /\ lockfile' = [lockfile EXCEPT !.held[tasks[t].fd] = 0]
    /\ tasks' = [tasks EXCEPT ![t].pc = "unlink"]
    /\ UNCHANGED notLockVars

\* release: lock_file.unlink(missing_ok=True)
ReleaseUnlink(t) ==
    /\ tasks[t].pc = "unlink"
    /\ lockfile' = [lockfile EXCEPT !.path = 0]
    /\ tasks' = [tasks EXCEPT ![t].pc = "done"]
    /\ UNCHANGED notLockVars

LockNext ==
    \E t \in 1..MaxTasks :
        \/ RunRequest(t)
        \/ AcquireOpen(t)
        \/ AcquireFlock(t)
        \/ RunBegin(t)
        \/ RunEnd(t)
        \/ ReleaseUnlock(t)
        \/ ReleaseUnlink(t)

SpecLock == LockInit /\ [][LockNext]_vars

\* ================================================================ claims
ValidTypes == {"semantic", "text", "hybrid"}

SemFailed == sem.kind \in {"index_error", "embed_error"}

RgFailed == rg.kind \in {"timeout", "oserror"} \/ (rg.kind = "exit" /\ rg.returncode \notin {0, 1})

\* C1: in hybrid mode, a semantic backend that returns at least one result
\* makes the response exactly that list tagged "semantic"; a semantic backend
\* that returns none makes the response exactly what the lexical adapter
\* returns for the same top_k and path filter, tagged "text".
C1_HybridFallback ==
    (spc = "done" /\ req.search_type = "hybrid") =>
        LET semantic == semantic_search(sem, req.top_k).results
            lexical == text_search(rg, req.top_k, req.path_contains).results
        IN  IF Len(semantic) >= 1
            THEN resp = [kind |-> "response", results |-> semantic,
                         count |-> Len(semantic), search_type |-> "semantic"]
            ELSE resp = [kind |-> "response", results |-> lexical,
                         count |-> Len(lexical), search_type |-> "text"]

C1_Witness ==
    /\ spc = "done"
    /\ req.search_type = "hybrid"
    /\ sem.kind = "ok" /\ sem.n = 0
    /\ resp.search_type = "text"
    /\ resp.count >= 1

\* C2: all results of one response come from one backend: each result's
\* search_type is the response's search_type.
C2_NeverMerged ==
    (spc = "done" /\ resp.kind = "response") =>
        \A i \in 1..Len(resp.results) :
            resp.results[i].search_type = resp.search_type

C2_Witness ==
    /\ spc = "done"
    /\ req.search_type = "hybrid"
    /\ sem.kind = "ok" /\ sem.n >= 1
    /\ rg.kind = "exit" /\ rg.returncode = 0 /\ HasMatch(rg.stdout)
    /\ resp.count >= 1

\* C3: a search_type other than semantic, text or hybrid is answered by an
\* error raised to the caller, with no backend consulted.
C3_InvalidModeRejected ==
    (spc = "done" /\ req.search_type \notin ValidTypes) =>
        /\ resp.kind = "HTTPException 400"
        /\ consulted = {}

C3_Witness ==
    /\ spc = "done"
    /\ req.search_type = "fuzzy"
    /\ sem.kind = "ok" /\ sem.n >= 1
    /\ rg.kind = "exit" /\ HasMatch(rg.stdout)
    /\ resp.kind = "HTTPException 400"

\* C4: a failing backend counts as zero results and nothing propagates: with
\* a valid search_type search always returns a response; when the embedding
\* or the index raises, semantic mode returns no results and hybrid mode
\* returns the lexical results; when the subprocess times out, cannot be
\* run, or exits with a code other than 0 or 1, the lexical adapter returns
\* an empty list.
C4_FailureIsZeroResults ==
    (spc = "done" /\ req.search_type \in ValidTypes) =>
        /\ resp.kind = "response"
        /\ (SemFailed /\ req.search_type = "semantic") =>
               (resp.results = <<>> /\ resp.search_type = "semantic")
        /\ (SemFailed /\ req.search_type = "hybrid") =>
               /\ resp.search_type = "text"
               /\ "subprocess" \in consulted \/ rg.kind = "novault"
               /\ resp.results = text_search(rg, req.top_k, req.path_contains).results
        /\ (RgFailed /\ resp.search_type = "text") => resp.results = <<>>

C4_Witness ==
    /\ spc = "done"
    /\ req.search_type = "hybrid"
    /\ sem.kind = "embed_error"
    /\ resp.search_type = "text"
    /\ resp.count >= 1

\* A backend that works and matches nothing.
NoMatchSem == [kind |-> "ok", n |-> 0]
NoMatchRg == [kind |-> "exit", returncode |-> 1, stdout |-> <<>>]

\* A backend the request consulted has failed.
SemConsultedAndFailed == req.search_type \in {"semantic", "hybrid"} /\ SemFailed

RgConsultedAndFailed == resp.search_type = "text" /\ RgFailed

\* The response the same request gets when the failed backends work and
\* match nothing.
ResponseWithoutFailure ==
    search_vault(req,
                 IF SemFailed THEN NoMatchSem ELSE sem,
                 IF RgFailed THEN NoMatchRg ELSE rg).resp

\* C5 as claimed: the response to a query whose backend failed differs from
\* the response to the same query when the backend worked and matched nothing.
C5_FailureDistinguishable ==
    (spc = "done" /\ (SemConsultedAndFailed \/ RgConsultedAndFailed)) =>
        resp # ResponseWithoutFailure

\* C5 amended: when a backend consulted by a query has failed, search returns
\* a response (it does not raise) that is the response of the same query when
\* that backend works and matches nothing: empty when the failed backend is
\* the one that answers, and with no field that tells the failure.
C5_FailureLooksLikeNoMatch ==
    (spc = "done" /\ (SemConsultedAndFailed \/ RgConsultedAndFailed)) =>
        /\ resp.kind = "response"
        /\ resp = ResponseWithoutFailure
        /\ (req.search_type = "semantic" \/ RgFailed) => resp.results = <<>>

C5_Witness ==
    /\ spc = "done"
    /\ req.search_type = "semantic"
    /\ sem.kind = "index_error"
    /\ resp.kind = "response"
    /\ resp.count = 0
    /\ log # <<>>

\* The match records of file f (as the adapter names it) that pass the path
\* filter, by position in the output.
PassingMatches(out, f, path_contains) ==
    { j \in 1..Len(out) :
        /\ out[j].kind = "match"
        /\ RelativeTo(out[j].path, VaultPath) = f
        /\ (path_contains = <<>> \/ Contains(Lower(path_contains), Lower(out[j].path))) }

\* C6: the lexical adapter never returns two results with the same
\* file_path, and the result kept for a file is the first match record of
\* that file that passes the path filter.
C6_FirstMatchPerFile ==
    (spc = "done" /\ resp.kind = "response" /\ resp.search_type = "text") =>
        /\ \A i, j \in 1..Len(resp.results) :
               resp.results[i].file_path = resp.results[j].file_path => i = j
        /\ \A i \in 1..Len(resp.results) :
               LET first == PassingMatches(rg.stdout, resp.results[i].file_path,
                                           req.path_contains)
               IN  /\ resp.results[i].start_line \in first
                   /\ \A j \in first : resp.results[i].start_line <= j

C6_Witness ==
    /\ spc = "done"
    /\ req.search_type = "text"
    /\ req.top_k = 2
    /\ \E f \in VaultFiles :
           Cardinality({ j \in 1..Len(rg.stdout) :
               rg.stdout[j].kind = "match" /\ rg.stdout[j].path = f }) >= 2
    /\ resp.count = 1

\* Output lines that cannot be parsed as a match record.
Unparseable(line) == line.kind \in {"garbage", "scalar"}

WithoutUnparseable(out) == SelectSeq(out, LAMBDA l : ~Unparseable(l))

\* C7 as claimed: the lexical adapter returns for an output what it returns
\* for that output with the unparseable lines removed.
C7_UnparseableSkipped ==
    (spc = "done" /\ req.search_type = "text" /\ rg.kind = "exit") =>
        resp.results =
            text_search([rg EXCEPT !.stdout = WithoutUnparseable(rg.stdout)],
                        req.top_k, req.path_contains).results

\* ---- chunker claims
\* C8 as claimed: every chunk emitted by chunk_file, a whole section or a
\* token window, has min_chunk_size <= token_count <= max_tokens.
C8_TokenBounds ==
    \A k \in 1..Len(chunks) :
        /\ cfg.min_chunk_size <= chunks[k].token_count
        /\ chunks[k].token_count <= cfg.max_tokens

\* The windows of the current section that were emitted as sub-chunks.
KeptCuts == SelectSeq(cut, LAMBDA w : w.kept)

\* C9 as claimed: every two consecutive sub-chunks emitted for an oversized
\* section share at least overlap_tokens tokens, the last pair included.
C9_Overlap ==
    (cpc = "split") =>
        \A k \in 1..(Len(KeptCuts) - 1) :
            KeptCuts[k].hi - KeptCuts[k + 1].lo >= cfg.overlap_tokens

SectionTokens == Len(sections[sidx].text)

Stride == cfg.max_tokens - cfg.overlap_tokens

\* C10: token splitting of a section of N tokens cuts its windows at the
\* offsets 0, s, 2s, ... below N with s = max_tokens - overlap_tokens, each
\* window holds at most max_tokens tokens, the sub-chunks are the windows
\* kept, in order, and when the loop ends every offset below N has had its
\* window, the windows cover every token, and a section of ScenarioTokens
\* tokens under the default configuration has given exactly 3 sub-chunks.
C10_Windows ==
    (cpc = "split") =>
        /\ \A k \in 1..Len(cut) :
               /\ cut[k].lo = (k - 1) * Stride
               /\ cut[k].lo < SectionTokens
               /\ cut[k].hi <= SectionTokens
               /\ cut[k].hi - cut[k].lo <= cfg.max_tokens
               /\ cut[k].hi = SectionTokens \/ cut[k].hi - cut[k].lo = cfg.max_tokens
        /\ Len(sub_chunks) = Len(KeptCuts)
        /\ \A k \in 1..Len(sub_chunks) :
               sub_chunks[k].text =
                   SubSeq(sections[sidx].text, KeptCuts[k].lo + 1, KeptCuts[k].hi)
        /\ (split_i >= SectionTokens) =>
               /\ Len(cut) * Stride >= SectionTokens
               /\ \A t \in 1..SectionTokens :
                      \E k \in 1..Len(cut) : cut[k].lo < t /\ t <= cut[k].hi
               /\ (cfg = DefaultConfig /\ SectionTokens = ScenarioTokens) =>
                      (Len(cut) = 3 /\ Len(sub_chunks) = 3)

C10_Witness ==
    /\ cpc = "split"
    /\ cfg = DefaultConfig
    /\ SectionTokens = ScenarioTokens
    /\ split_i >= SectionTokens
    /\ Len(sub_chunks) = 3

\* ------------------------------------------------------------------ C11
\* The sections _split_by_headings finds in a file.
SectionsIn(d) == Elems(split_by_headings(parse_frontmatter(d)))

\* The section is emitted as one chunk.
EmittedWhole(sec) ==
    /\ count_tokens(sec.text) <= cfg.max_tokens
    /\ count_tokens(sec.text) >= cfg.min_chunk_size

\* The chunks of a list that were emitted for a whole section.
ChunksFor(chs, sec) ==
    { ch \in Elems(chs) : /\ ch.heading_path = sec.heading_path
                          /\ ch.start_line = sec.start_line
                          /\ ch.text = strip(sec.text) }

\* Text was edited in place: same frontmatter, same number of lines, the
\* same headings on the same lines.
TextOnlyEdit(d1, d2) ==
    /\ d1.fm = d2.fm
    /\ Len(d1.lines) = Len(d2.lines)
    /\ \A j \in 1..Len(d1.lines) :
         /\ d1.lines[j].level = d2.lines[j].level
         /\ d1.lines[j].heading = d2.lines[j].heading

\* Both versions of the file have been chunked.
Rechunked == before.ran /\ produced.ran

\* C11: chunk_id depends only on (file_path, heading_path, start_line). When
\* text is edited inside sections, no heading being added or removed and no
\* line changing position, a section that is emitted before and after the
\* edit gets a chunk with the same chunk_id after the edit as before it, and
\* any two chunks of the two versions with the same heading_path and
\* start_line have the same chunk_id.
C11_IdStableUnderTextEdit ==
    (Rechunked /\ TextOnlyEdit(before.doc, doc)) =>
        /\ \A s1 \in SectionsIn(before.doc), s2 \in SectionsIn(doc) :
             (s1.start_line = s2.start_line /\ EmittedWhole(s1) /\ EmittedWhole(s2)) =>
                 /\ ChunksFor(before.chunks, s1) # {}
                 /\ \A c1 \in ChunksFor(before.chunks, s1) :
                      \E c2 \in Elems(produced.chunks) :
                          /\ c2.text = strip(s2.text)
                          /\ c2.start_line = s2.start_line
                          /\ c2.chunk_id = c1.chunk_id
        /\ \A c1 \in Elems(before.chunks), c2 \in Elems(produced.chunks) :
             (c1.heading_path = c2.heading_path /\ c1.start_line = c2.start_line) =>
                 c1.chunk_id = c2.chunk_id

\* A section whose text was edited in place is emitted in both versions.
C11_Witness ==
    /\ Rechunked
    /\ TextOnlyEdit(before.doc, doc)
    /\ \E s1 \in SectionsIn(before.doc), s2 \in SectionsIn(doc) :
         /\ s1.start_line = s2.start_line
         /\ s1.text # s2.text
         /\ EmittedWhole(s1) /\ EmittedWhole(s2)
         /\ \E c1 \in ChunksFor(before.chunks, s1), c2 \in ChunksFor(produced.chunks, s2) :
              c1.chunk_id = c2.chunk_id /\ c1.text # c2.text

\* ------------------------------------------------------------------ C12
\* C12: any structural shift yields a new id. A section that has the same
\* text in both versions of a file, and whose heading breadcrumb changed or
\* whose lines are at another line position of the file, gets a chunk with a
\* chunk_id different from the one it had.
C12_StructuralShiftNewId ==
    Rechunked =>
        \A s1 \in SectionsIn(before.doc), s2 \in SectionsIn(doc) :
            ( /\ s1.text = s2.text
              /\ \/ s1.heading_stack # s2.heading_stack
                 \/ FileLine(before.doc, s1.start_line) # FileLine(doc, s2.start_line) )
            => \A c1 \in ChunksFor(before.chunks, s1), c2 \in ChunksFor(produced.chunks, s2) :
                   c1.chunk_id # c2.chunk_id

\* ------------------------------------------------------------------ C13
\* A reindex run has returned and the vault is still as the run found it.
RunEnded == job.pc = "ended"

\* The ids in the index.
IndexedIds == { e.id : e \in BagToSet(store.entries) }

\* The chunks of the scanned files whose chunking did not raise.
ChunksOfOthers ==
    UNION { Elems(chunk_file(DefaultConfig, f, Versions[vault[f]])) :
              f \in Elems(job.md_files) \ job.chunk_raises }

\* C13: when chunking raises for some of the scanned files of a reindex run
\* (and nothing else fails in it), the run reports success, its error count
\* is the number of files whose chunking raised, and every chunk of the
\* other files is in the index, with its text.
C13_ChunkErrorsDoNotAbort ==
    (RunEnded /\ job.embed_raises = {}) =>
        /\ outcome.success
        /\ outcome.chunk_errors = Cardinality(job.chunk_raises)
        /\ outcome.chunks_indexed = outcome.total_chunks
        /\ \A ch \in ChunksOfOthers :
             \E e \in BagToSet(store.entries) :
                 e.id = ch.chunk_id /\ e.document = ch.text

\* Chunking raised for one file and the other file was indexed.
C13_Witness ==
    /\ RunEnded
    /\ job.embed_raises = {}
    /\ job.chunk_raises # {}
    /\ ChunksOfOthers # {}
    /\ outcome.success
    /\ outcome.chunk_errors > 0
    /\ outcome.chunks_indexed > 0

\* ------------------------------------------------------------------ C14
\* C14: when embedding fails for the chunks of one file during a reindex, the
\* failure is counted as a per-file error, the run reports success and the
\* chunks of the other files are indexed.
C14_EmbedErrorsDoNotAbort ==
    (RunEnded /\ job.embed_raises # {}) =>
        /\ outcome.success
        /\ \A ch \in Elems(job.all_chunks) :
             ch.file_path \notin job.embed_raises => ch.chunk_id \in IndexedIds

\* ------------------------------------------------------------------ C15
\* C15: after a reindex run with recreate=true that reports success, the ids
\* in the index are exactly the ids of the chunks that run produced, whatever
\* the delete step did.
C15_RecreateLeavesOnlyThisRun ==
    (RunEnded /\ job.recreate /\ outcome.success) =>
        IndexedIds = { ch.chunk_id : ch \in Elems(job.all_chunks) }

\* ------------------------------------------------------------------ C16
\* C16: outside the clear step of a recreate run, no step of a reindex run
\* and no search removes an id from the index: each id that is indexed
\* before the step is indexed after it.
C16_NothingDeleted ==
    [][ job.pc # "clear" =>
          { e.id : e \in BagToSet(store.entries) }
          \subseteq { e.id : e \in BagToSet(store'.entries) } ]_vars

\* An incremental run has succeeded and the index still holds an entry that
\* no file of the vault gives any more.
C16_Witness ==
    /\ RunEnded
    /\ ~job.recreate
    /\ outcome.success
    /\ job.chunk_raises = {}
    /\ job.all_chunks # <<>>
    /\ \E x \in IndexedIds : x \notin { ch.chunk_id : ch \in Elems(job.all_chunks) }

C18_Singletons ==
    /\ proc.clients <= 1
    /\ proc.models <= 1
    /\ proc.loads <= 1

\* ------------------------------------------------------------------ C19
\* C19: while a request is inside embedding inference or waits for the
\* search-tool subprocess, the handler of another request that has reached
\* the process and has not been answered can take a step.
C19_NotBlocking ==
    \A r \in 1..MaxRequests, q \in 1..MaxRequests :
        ( /\ r # q
          /\ handlers[r].pc \in {"embedding", "subprocess"}
          /\ handlers[q].pc \notin {"new", "done"} )
        => ENABLED Handle(q)

\* ------------------------------------------------------------------ C20
\* The stored entry a result was made from.
StoredOf(res) == CHOOSE e \in Elems(stored) : e.id = res.chunk_id

\* C20: a semantic search returns only chunks of the collection whose stored
\* para_category is the requested one (when one is requested), whose stored
\* tags contain at least one of the requested tags (when tags are
\* requested) and whose file_path contains path_contains, letter case not
\* counting (when it is requested).
C20_FiltersHonoured ==
    fres.returned =>
        \A res \in Elems(fres.results) :
            /\ \E e \in Elems(stored) : e.id = res.chunk_id
            /\ fq.para_category # "" =>
                 StoredOf(res).metadata.para_category = fq.para_category
            /\ fq.tags # <<>> =>
                 Elems(fq.tags) \cap Elems(json_loads(StoredOf(res).metadata.tags)) # {}
            /\ fq.path_contains # <<>> =>
                 Contains(Lower(fq.path_contains), Lower(StoredOf(res).metadata.file_path))

\* A search with the three filters returns the second nearest chunk and not
\* the nearest one, which fails a filter.
C20_Witness ==
    /\ fres.returned
    /\ fq.para_category # "" /\ fq.tags # <<>> /\ fq.path_contains # <<>>
    /\ Len(stored) >= 2
    /\ Len(fres.results) = 1
    /\ fres.results[1].chunk_id = ChunkIds[2]
    /\ fres.results[1].file_path # Lower(fres.results[1].file_path)

\* C21: in every search mode, every returned result satisfies the
\* para_category filter and the tag filter of the request, also when hybrid
\* answers from the lexical fallback.
C21_FiltersInEveryMode ==
    fres.returned =>
        \A res \in Elems(fres.results) :
            /\ fq.para_category # "" =>
                 StoredOf(res).metadata.para_category = fq.para_category
            /\ fq.tags # <<>> =>
                 Elems(fq.tags) \cap Elems(json_loads(StoredOf(res).metadata.tags)) # {}

\* C22: the index status operation returns a chunk_count and a state that
\* is one of ready, empty or error: ready exactly when the count it reports
\* is > 0, empty exactly when it is 0, error exactly when the vector-store
\* backend failed.
C22_StatusStates ==
    scall.pc = "done" =>
        /\ "chunk_count" \in scall.semantic_stats.keys
        /\ scall.semantic_stats.status \in {"ready", "empty", "error"}
        /\ scall.semantic_stats.status = "error" <=> scall.failed
        /\ ~scall.failed =>
             /\ scall.semantic_stats.status = "ready"
                  <=> scall.semantic_stats.chunk_count > 0
             /\ scall.semantic_stats.status = "empty"
                  <=> scall.semantic_stats.chunk_count = 0

\* C23: on every successful run, files_chunked counts every scanned file
\* whose chunking completed without error, so that files_scanned =
\* files_chunked + the number of chunking errors.
C23_ScannedIsChunkedPlusErrors ==
    (outcome.done /\ outcome.success) =>
        outcome.files_scanned = outcome.files_chunked + outcome.chunk_errors

\* The level of the heading line a breadcrumb entry came from (each heading
\* text of LineKinds is used at one level).
LevelOf(heading) == (CHOOSE k \in HeadingKinds : k.heading = heading).level

\* The sections _split_by_headings cuts from the file on disk.
SectionsOfDoc == Elems(split_by_headings(parse_frontmatter(doc)))

\* C24: for every section produced by heading splitting, every heading of
\* its breadcrumb has a strictly lower level than the heading that follows
\* it, the last one is the section's own heading, and the breadcrumb is
\* "ROOT" exactly when no heading precedes the section, whatever the order
\* of heading levels in the file.
C24_BreadcrumbOfOpenHeadings ==
    produced.ran =>
        \A sec \in SectionsOfDoc :
            /\ \A k \in 1..(Len(sec.heading_stack) - 1) :
                 LevelOf(sec.heading_stack[k]) < LevelOf(sec.heading_stack[k + 1])
            /\ sec.start_line > 0 =>
                 /\ sec.heading_stack # <<>>
                 /\ sec.heading_stack[Len(sec.heading_stack)]
                      = parse_frontmatter(doc)[sec.start_line].heading
            /\ sec.heading_path = "ROOT" <=> sec.start_line = 0

\* The gateway has fallen back: a construction on the device it was given
\* failed and the construction on "cpu" that followed succeeded.
FellBackAt(k) ==
    /\ k < Len(loaded)
    /\ ~loaded[k].ok
    /\ loaded[k].device \in Devices
    /\ loaded[k + 1] = [device |-> "cpu", ok |-> TRUE]

\* C25: once loading the provider on the preferred device has failed and
\* the gateway has fallen back to "cpu", no later embed call constructs the
\* provider again, on the preferred device or on any other: the fallback
\* construction is the last one, and the gateway holds "cpu" as its device.
C25_FallbackRemembered ==
    \A k \in 1..Len(loaded) :
        FellBackAt(k) =>
            /\ k + 1 = Len(loaded)
            /\ gateway.device = "cpu"
            /\ gateway.model = "cpu"

\* Calls were made after the fallback and the third call has returned.
C25_Witness ==
    /\ \E k \in 1..Len(loaded) : FellBackAt(k)
    /\ gcall.n = MaxCalls
    /\ gcall.pc = "idle"
    /\ ~gcall.raised
    /\ Len(loaded) = 2

\* The entries of the upsert calls made so far, in the order they were sent.
RECURSIVE Upserted(_)
Upserted(k) ==
    IF k = 0 THEN <<>>
    ELSE Upserted(k - 1) \o calls[k].entries

\* C26: index_chunks embeds the texts of all chunks in one passage-mode call
\* made before the first upsert, then upserts every chunk once, in input
\* order, in requests of at most batch_size entries, and returns the number
\* of chunks given; with an empty list it returns 0 and calls neither the
\* embedding model nor the collection.
C26_EmbedThenUpsertInOrder ==
    /\ \A k \in 1..Len(calls) :
         /\ calls[k].op = "embed_passages" <=> k = 1
         /\ calls[k].op = "embed_passages" => calls[k].n = Len(ix.chunks)
         /\ calls[k].op = "upsert" => calls[k].n \in 1..ix.batch_size
    /\ Len(Upserted(Len(calls))) <= Len(ix.chunks)
    /\ \A j \in 1..Len(Upserted(Len(calls))) :
         /\ Upserted(Len(calls))[j].id = ix.chunks[j].chunk_id
         /\ Upserted(Len(calls))[j].document = ix.chunks[j].text
         /\ Upserted(Len(calls))[j].embedding = << "passage: ", ix.chunks[j].text >>
    /\ ix.pc = "done" =>
         /\ Len(Upserted(Len(calls))) = Len(ix.chunks)
         /\ ix.result = Len(ix.chunks)
         /\ ix.chunks = <<>> => calls = <<>>

\* Three chunks, two of them the same, were indexed with batch_size 2: one
\* embedding call, then a request of two entries and one of one.
C26_Witness ==
    /\ ix.pc = "done"
    /\ Len(ix.chunks) = 3
    /\ ix.chunks[1] = ix.chunks[3]
    /\ ix.chunks[1] # ix.chunks[2]
    /\ ix.batch_size = 2
    /\ Len(calls) = 3
    /\ calls[2].n = 2
    /\ calls[3].n = 1
    /\ ix.result = 3

\* The files the scan is said to return: the markdown files under an
\* existing allow-listed top-level folder (any markdown file when no such
\* folder exists) with no excluded folder name between the vault root and
\* the file and a name that does not start with a dot.
Eligible ==
    LET existing == { folder \in INCLUDE_FOLDERS :
                        \E f \in tree.files : f.dirs # <<>> /\ f.dirs[1] = folder }
    IN  { f \in tree.files :
            /\ IsMarkdown(f.name)
            /\ existing # {} => (f.dirs # <<>> /\ f.dirs[1] \in existing)
            /\ Elems(f.dirs) \cap EXCLUDE_FOLDERS = {}
            /\ f.name[1] # "." }

\* C27: the reindex scan returns exactly the eligible files, wherever the
\* vault root is.
C27_ScanReturnsEligible ==
    scanned.ran => scanned.md_files = Eligible

\* C28: the chunks chunk_file emits for one file, whole sections and token
\* windows, sections with the same heading breadcrumb included, have
\* pairwise distinct chunk_ids.
C28_DistinctIds ==
    cpc = "done" =>
        \A j, k \in 1..Len(chunks) :
            j # k => chunks[j].chunk_id # chunks[k].chunk_id

\* C29: under every configuration the constructor accepts, overlap_tokens
\* >= max_tokens included, every iteration of the token-splitting loop
\* moves the window start offset strictly forward, so that the loop ends.
C29_OffsetIncreases ==
    [][(cpc = "split" /\ cpc' = "split" /\ cut' # cut) => split_i' > split_i]_vars

====
